---- MODULE Spec2Model ----
(***************************************************************************)
(* Model of the ccm-tool smartcard management core: the PC/SC card channel *)
(* (src/src/smartcard_manager.py), the SCP02/SCP03 secure channel engine   *)
(* (src/src/secure_channel.py), the GlobalPlatform command layer           *)
(* (src/src/globalplatform.py), the command-line session facade           *)
(* (src/ccm_tool.py), the SQLite store (src/src/database_manager.py), the  *)
(* OTA SMS-PP builder (src/src/ota_manager.py) and the configuration       *)
(* manager (src/src/config_manager.py).                                    *)
(*                                                                         *)
(* Byte strings are sequences of items.  An item is a literal byte or a    *)
(* symbolic block of known width: a random value, the output of a cipher   *)
(* or a MAC over a given key and message, or a slice of such a block.      *)
(***************************************************************************)
EXTENDS Integers, Sequences, FiniteSets, TLC

VARIABLES
    readers,        \* SmartcardManager.readers: reader name -> [connected]
    active_reader,  \* SmartcardManager.active_reader (a reader name or NoReader)
    session,        \* SecureChannelManager.session (a session record or None)
    cli,            \* SmartcardCLI: [connected_reader, secure_channel_active]
    hist,           \* of the open session: its counter at creation, its sends
    tx,             \* the APDU commands handed to transmit by the last operation
    ret,            \* the last operation: its name, inputs and outcome
    gs,             \* the get_status call in progress: its locals
    store,          \* the SQLite store of DatabaseManager: its tables' rows
    keysets,        \* ConfigManager.keysets: the keysets cached by key
    callers         \* the concurrent callers: each one's position in its call
                    \* and its locals, and what reached the card or the
                    \* store, in order

vars == <<readers, active_reader, session, cli, hist, tx, ret, gs, store, keysets, callers>>

\* what the card channel, the secure channel engine and the facade leave alone
beside_card == <<gs, store, keysets, callers>>

----------------------------------------------------------------------------
(* Bounds of the model *)

\* how many commands one session may wrap before the model stops sending
MaxSends == 2

\* how many GET STATUS responses one get_status call may read before the
\* model stops paging
MaxPages == 3

----------------------------------------------------------------------------
(* Byte strings *)

None == [t |-> "none"]
NoReader == "none"

B(n) == [t |-> "byte", v |-> n]

Bs(s) == [i \in DOMAIN s |-> B(s[i])]

\* a block of w unpredictable bytes (os.urandom, a static key, card data)
Rand(id, w) == [t |-> "rand", id |-> id, w |-> w]

\* the output of a keyed primitive over msg, w bytes wide
Blob(alg, key, msg, w) == [t |-> alg, key |-> key, msg |-> msg, w |-> w]

\* bytes lo..hi-1 of a block
Part(item, lo, hi) == [t |-> "part", of |-> item, lo |-> lo, hi |-> hi]

Width(item) ==
    IF item.t = "byte" THEN 1
    ELSE IF item.t = "part" THEN item.hi - item.lo
    ELSE item.w

RECURSIVE ByteLen(_)
ByteLen(s) == IF s = <<>> THEN 0 ELSE Width(Head(s)) + ByteLen(Tail(s))

\* the elements of a sequence
Range(seq) == {seq[i] : i \in 1..Len(seq)}

Min(a, b) == IF a < b THEN a ELSE b
Max(a, b) == IF a > b THEN a ELSE b

\* bytes lo..hi-1 of one item, hi - lo >= 1, within the item
ItemSlice(item, lo, hi) ==
    IF lo = 0 /\ hi = Width(item) THEN item
    ELSE IF item.t = "part" THEN Part(item.of, item.lo + lo, item.lo + hi)
    ELSE Part(item, lo, hi)

\* Python's s[lo:hi] for 0 <= lo, with hi clamped to len(s)
RECURSIVE Slice(_, _, _)
Slice(s, lo, hi) ==
    IF s = <<>> \/ hi <= lo THEN <<>>
    ELSE LET w == Width(Head(s))
         IN IF lo >= w THEN Slice(Tail(s), lo - w, hi - w)
            ELSE <<ItemSlice(Head(s), lo, Min(hi, w))>>
                   \o Slice(Tail(s), 0, hi - w)

\* n zero bytes
Zeros(n) == [i \in 1..n |-> B(0)]

\* struct.pack('>I', n)[1:]: the low three bytes of n, big-endian
Pack3(n) == <<B((n \div 65536) % 256), B((n \div 256) % 256), B(n % 256)>>

\* struct.unpack('>I', b'\x00' + three bytes)[0]
Unpack3(s) == s[1].v * 65536 + s[2].v * 256 + s[3].v

IsBytes(s) == \A i \in DOMAIN s : s[i].t = "byte"

----------------------------------------------------------------------------
(* APDU commands and responses (smartcard_manager.py) *)

APDUCommand(cla, ins, p1, p2, data, le) ==
    [cla |-> cla, ins |-> ins, p1 |-> p1, p2 |-> p2, data |-> data, le |-> le]

\* APDUCommand.to_bytes
to_bytes(c) ==
    <<B(c.cla), B(c.ins), B(c.p1), B(c.p2)>>
    \o (IF c.data # <<>> THEN <<B(ByteLen(c.data))>> \o c.data ELSE <<>>)
    \o (IF c.le > 0 THEN <<B(c.le)>> ELSE <<>>)

\* APDUResponse: data and the status word of what the card returned
APDUResponse(data, sw) == [t |-> "response", data |-> data, sw |-> sw]

\* an exception raised to the caller
Raised(msg) == [t |-> "exception", msg |-> msg]

is_success(r) == r.sw = 36864

\* an is_warning that knows only the 62xx status words
is_warning_62(r) == 25088 <= r.sw /\ r.sw <= 25343

\* APDUResponse.is_warning
is_warning(r) ==
    (25088 <= r.sw /\ r.sw <= 25343) \/ (25344 <= r.sw /\ r.sw <= 25599)

\* APDUResponse.__init__ on the list of bytes the card returned: the
\* response, or the exception raised
NewAPDUResponse(data) ==
    IF Len(data) < 2 THEN Raised("SmartcardException: Invalid APDU response length")
    ELSE APDUResponse(SubSeq(data, 1, Len(data) - 2),
                      data[Len(data) - 1].v * 256 + data[Len(data)].v)

\* the outcome of a transmit that raised instead of returning a response
TransportError == [t |-> "transport_error"]

----------------------------------------------------------------------------
(* Cryptographic helpers of the secure channel engine (secure_channel.py) *)

KeySet(enc_key, mac_key, dek_key, key_version, protocol) ==
    [enc_key |-> enc_key, mac_key |-> mac_key, dek_key |-> dek_key,
     key_version |-> key_version, protocol |-> protocol]

\* cmac.CMAC(algorithms.AES(key)); update(msg); finalize(): 16 bytes
CMAC(key, msg) == <<Blob("cmac", key, msg, 16)>>

\* _encrypt_des3: two-key 3DES keys are expanded, the data is zero padded
\* to the next 8-byte boundary (always at least one byte), ECB encrypted
_encrypt_des3(key, data) ==
    LET k == IF ByteLen(key) = 16 THEN key \o Slice(key, 0, 8) ELSE key
        padded_data == data \o Zeros(8 - (ByteLen(data) % 8))
    IN <<Blob("des3ecb", k, padded_data, ByteLen(padded_data))>>

\* _kdf_scp03
_kdf_scp03(key, context, label, length) ==
    LET input_data == label \o <<B(0)>> \o context
                        \o <<B(((length * 8) \div 256) % 256), B((length * 8) % 256)>>
    IN Slice(CMAC(key, input_data), 0, length)

\* _derive_scp02_keys
_derive_scp02_keys(keyset, kdd, host_challenge, card_challenge) ==
    LET derivation_data == card_challenge \o host_challenge
    IN [enc |-> Slice(_encrypt_des3(keyset.enc_key, derivation_data \o Bs(<<1, 130>>)), 0, 16),
        mac |-> Slice(_encrypt_des3(keyset.mac_key, derivation_data \o Bs(<<1, 1>>)), 0, 16),
        kek |-> Slice(_encrypt_des3(keyset.dek_key, derivation_data \o Bs(<<1, 129>>)), 0, 16)]

\* _derive_scp03_keys
_derive_scp03_keys(keyset, host_challenge, card_challenge, kdd) ==
    LET context == host_challenge \o card_challenge
    IN [enc  |-> _kdf_scp03(keyset.enc_key, context, Bs(<<0, 0, 0, 4>>), 16),
        mac  |-> _kdf_scp03(keyset.mac_key, context, Bs(<<0, 0, 0, 6>>), 16),
        rmac |-> _kdf_scp03(keyset.mac_key, context, Bs(<<0, 0, 0, 7>>), 16)]

\* the value _verify_scp02_cryptogram compares the card cryptogram with
Scp02CardCryptogram(session_keys, host_challenge, card_challenge) ==
    Slice(_encrypt_des3(session_keys.enc,
                        host_challenge \o card_challenge \o <<B(128)>> \o Zeros(7)),
          0, 8)

_verify_scp02_cryptogram(session_keys, host_challenge, card_challenge, card_cryptogram) ==
    Scp02CardCryptogram(session_keys, host_challenge, card_challenge) = card_cryptogram

\* the value _verify_scp03_cryptogram compares the card cryptogram with
Scp03CardCryptogram(session_keys, host_challenge, card_challenge, sequence_counter) ==
    Slice(CMAC(session_keys.enc,
               host_challenge \o Pack3(sequence_counter) \o card_challenge
                 \o <<B(128)>> \o Zeros(10)),
          0, 8)

\* a verification that accepts every cryptogram
_verify_scp03_cryptogram_accepting(session_keys, host_challenge, card_challenge, card_cryptogram, sequence_counter) ==
    TRUE

_verify_scp03_cryptogram(session_keys, host_challenge, card_challenge, card_cryptogram, sequence_counter) ==
    Scp03CardCryptogram(session_keys, host_challenge, card_challenge, sequence_counter)
        = card_cryptogram

_calculate_scp02_host_cryptogram(session_keys, host_challenge, card_challenge) ==
    Slice(_encrypt_des3(session_keys.enc,
                        card_challenge \o host_challenge \o <<B(128)>> \o Zeros(7)),
          0, 8)

_calculate_scp03_host_cryptogram(session_keys, host_challenge, card_challenge, sequence_counter) ==
    Slice(CMAC(session_keys.enc,
               card_challenge \o Pack3(sequence_counter) \o host_challenge
                 \o <<B(128)>> \o Zeros(10)),
          0, 8)

\* the 8-byte MAC _apply_scp02_mac appends
Scp02Mac(command, session_keys) ==
    LET apdu_data == <<B(command.cla), B(command.ins), B(command.p1), B(command.p2),
                       B(ByteLen(command.data))>> \o command.data
        mac_data == apdu_data \o <<B(128)>> \o Zeros(7)
    IN Slice(_encrypt_des3(session_keys.mac, mac_data), 0, 8)

\* _apply_scp02_mac
_apply_scp02_mac(command, session_keys) ==
    [command EXCEPT !.data = command.data \o Scp02Mac(command, session_keys)]

\* the 8-byte MAC _apply_scp03_mac appends
Scp03Mac(command, session_keys, sequence_counter) ==
    LET mac_data == Pack3(sequence_counter)
                      \o <<B(command.cla), B(command.ins), B(command.p1), B(command.p2)>>
                      \o <<B(ByteLen(command.data))>> \o command.data
    IN Slice(CMAC(session_keys.mac, mac_data), 0, 8)

\* _apply_scp03_mac
_apply_scp03_mac(command, session_keys, sequence_counter) ==
    [command EXCEPT !.data = command.data
                               \o Scp03Mac(command, session_keys, sequence_counter)]

\* the key the 3DES cipher runs with: a 16-byte key is K1 K2 K1
Des3Key(key) == IF ByteLen(key) = 16 THEN key \o Slice(key, 0, 8) ELSE key

\* AES-CBC with a zero IV over a block-aligned input
AesCbc(key, padded) == <<Blob("aescbc", key, padded, ByteLen(padded))>>

\* the padding of _encrypt_command_data (SCP03): 80 and zeros up to 16 bytes
Pad80(data) == data \o <<B(128)>> \o Zeros(15 - (ByteLen(data) % 16))

\* _encrypt_command_data, under the open session s
_encrypt_command_data(s, command) ==
    IF command.data = <<>> THEN command
    ELSE IF s.protocol = "SCP02"
         THEN [command EXCEPT !.data = _encrypt_des3(s.session_keys.enc, command.data)]
         ELSE [command EXCEPT !.data = AesCbc(s.session_keys.enc, Pad80(command.data))]

\* the removal of the padding in _decrypt_response_data (SCP03 branch):
\* a final 80 is cut; otherwise the last byte is taken as a PKCS#7 length n
\* and decrypted[:-n] is returned, which is empty for n = 0
RemovePadding(decrypted) ==
    IF decrypted = <<>> THEN decrypted
    ELSE LET n == ByteLen(decrypted)
             last == Slice(decrypted, n - 1, n)[1]
         IN IF last.t # "byte" THEN decrypted
            ELSE IF last.v = 128 THEN Slice(decrypted, 0, n - 1)
            ELSE IF last.v = 0 THEN <<>>
            ELSE Slice(decrypted, 0, Max(n - last.v, 0))

\* whether the decryptor of _decrypt_response_data raises on data:
\* finalize() rejects input that is not a multiple of the block length
DecryptRaises(s, data) ==
    ByteLen(data) % (IF s.protocol = "SCP02" THEN 8 ELSE 16) # 0

\* _decrypt_response_data, under the open session s, for block-aligned data.
\* Data that is no ciphertext under the session key decrypts to an opaque
\* block whose bytes are unknown (it is left unstripped).
_decrypt_response_data(s, data) ==
    IF s.protocol = "SCP02"
    THEN IF Len(data) = 1 /\ data[1].t = "des3ecb"
              /\ data[1].key = Des3Key(s.session_keys.enc)
         THEN data[1].msg
         ELSE <<Blob("des3dec", Des3Key(s.session_keys.enc), data, ByteLen(data))>>
    ELSE IF Len(data) = 1 /\ data[1].t = "aescbc" /\ data[1].key = s.session_keys.enc
         THEN RemovePadding(data[1].msg)
         ELSE <<Blob("aesdec", s.session_keys.enc, data, ByteLen(data))>>

\* what the engine gets back, under the session s, when the card returns
\* the data of a command as _encrypt_command_data sent it: a command without
\* data is sent as it is, and send_secure_apdu decrypts only a response that
\* has data
EncryptThenDecrypt(s, m) ==
    LET sent == _encrypt_command_data(s, APDUCommand(128, 242, 64, 0, m, 0)).data
    IN IF sent = <<>> THEN <<>> ELSE _decrypt_response_data(s, sent)

----------------------------------------------------------------------------
(* The card channel (smartcard_manager.py) *)

\* SmartcardManager.send_apdu / SmartcardReader.send_apdu can reach transmit
CanTransmit ==
    /\ active_reader # NoReader
    /\ readers[active_reader].connected

\* SmartcardManager.send_apdu: [sent, resp] where sent is what was handed to
\* transmit and resp the response, or the exception raised.  outcome is what
\* the reader library does with the transmit: a response or TransportError.
send_apdu(command, outcome) ==
    IF active_reader = NoReader
    THEN [sent |-> <<>>, resp |-> Raised("No active reader connection")]
    ELSE IF ~readers[active_reader].connected
    THEN [sent |-> <<>>, resp |-> Raised("Not connected to card")]
    ELSE IF outcome = TransportError
    THEN [sent |-> <<command>>, resp |-> Raised("APDU transmission failed")]
    ELSE [sent |-> <<command>>, resp |-> outcome]

----------------------------------------------------------------------------
(* The secure channel engine (secure_channel.py) *)

SecureChannelSession(protocol, security_level, session_keys, sequence_counter, mac_chaining_value) ==
    [protocol |-> protocol, security_level |-> security_level,
     session_keys |-> session_keys, sequence_counter |-> sequence_counter,
     mac_chaining_value |-> mac_chaining_value]

\* SecureChannelSession.increment_sequence
increment_sequence(s) ==
    [s EXCEPT !.sequence_counter = (s.sequence_counter + 1) % 16777216]

\* a handshake that returns False or raises: self.session is not assigned
HandshakeFailed(why, sent) ==
    [ok |-> FALSE, why |-> why, session |-> session, sent |-> sent]

\* the session object _establish_scp02 creates
Scp02NewSession(security_level, session_keys) ==
    SecureChannelSession("SCP02", security_level, session_keys, 0, Zeros(8))

\* the session object _establish_scp03 creates
Scp03NewSession(security_level, session_keys, sequence_counter) ==
    SecureChannelSession("SCP03", security_level, session_keys, sequence_counter,
                         Zeros(16))

\* _establish_scp02 up to the cryptogram check (lines 83-119): the INITIALIZE
\* UPDATE exchange, the parse, the key derivation and the verification
Scp02InitializeUpdate(keyset, host_challenge, out1) ==
    LET command == APDUCommand(128, 80, keyset.key_version, 0, host_challenge, 0)
        r1 == send_apdu(command, out1)
        data == r1.resp.data
        key_diversification_data == Slice(data, 0, 10)
        card_challenge == Slice(data, 12, 20)
        card_cryptogram == Slice(data, 20, 28)
        session_keys == _derive_scp02_keys(keyset, key_diversification_data,
                                           host_challenge, card_challenge)
        why == IF r1.resp.t = "exception" THEN "transport"
               ELSE IF ~is_success(r1.resp) THEN "init_update_sw"
               ELSE IF ByteLen(data) < 28 THEN "length"
               ELSE IF ~_verify_scp02_cryptogram(session_keys, host_challenge,
                                                 card_challenge, card_cryptogram)
               THEN "cryptogram"
               ELSE ""
    IN IF why # ""
       THEN [pass |-> FALSE, why |-> why, sent |-> r1.sent]
       ELSE [pass |-> TRUE, why |-> "", sent |-> r1.sent,
             session_keys |-> session_keys, sequence_counter |-> 0,
             host_cryptogram |-> _calculate_scp02_host_cryptogram(
                                     session_keys, host_challenge, card_challenge)]

\* _establish_scp02 from EXTERNAL AUTHENTICATE on (lines 121-152), after the
\* first step u has passed
Scp02ExternalAuthenticate(u, security_level, out2) ==
    LET command == _apply_scp02_mac(
                       APDUCommand(132, 130, security_level, 0, u.host_cryptogram, 0),
                       u.session_keys)
        r2 == send_apdu(command, out2)
    IN IF r2.resp.t = "exception"
       THEN HandshakeFailed("transport", u.sent \o r2.sent)
       ELSE IF ~is_success(r2.resp)
       THEN HandshakeFailed("ext_auth_sw", u.sent \o r2.sent)
       ELSE [ok |-> TRUE, why |-> "",
             session |-> Scp02NewSession(security_level, u.session_keys),
             sent |-> u.sent \o r2.sent]

\* _establish_scp03 up to the cryptogram check (lines 158-197)
Scp03InitializeUpdate(keyset, host_challenge, out1) ==
    LET command == APDUCommand(128, 80, keyset.key_version, 0, host_challenge, 0)
        r1 == send_apdu(command, out1)
        data == r1.resp.data
        key_diversification_data == Slice(data, 0, 10)
        sequence_counter == Unpack3(Slice(data, 12, 15))
        card_challenge == Slice(data, 15, 23)
        card_cryptogram == Slice(data, 23, 31)
        session_keys == _derive_scp03_keys(keyset, host_challenge, card_challenge,
                                           key_diversification_data)
        why == IF r1.resp.t = "exception" THEN "transport"
               ELSE IF ~is_success(r1.resp) THEN "init_update_sw"
               ELSE IF ByteLen(data) < 29 THEN "length"
               ELSE IF ~_verify_scp03_cryptogram(session_keys, host_challenge,
                                                 card_challenge, card_cryptogram,
                                                 sequence_counter)
               THEN "cryptogram"
               ELSE ""
    IN IF why # ""
       THEN [pass |-> FALSE, why |-> why, sent |-> r1.sent]
       ELSE [pass |-> TRUE, why |-> "", sent |-> r1.sent,
             session_keys |-> session_keys, sequence_counter |-> sequence_counter,
             host_cryptogram |-> _calculate_scp03_host_cryptogram(
                                     session_keys, host_challenge, card_challenge,
                                     sequence_counter)]

\* _establish_scp03 from EXTERNAL AUTHENTICATE on (lines 199-230), after the
\* first step u has passed
Scp03ExternalAuthenticate(u, security_level, out2) ==
    LET command == _apply_scp03_mac(
                       APDUCommand(132, 130, security_level, 0, u.host_cryptogram, 0),
                       u.session_keys, u.sequence_counter)
        r2 == send_apdu(command, out2)
    IN IF r2.resp.t = "exception"
       THEN HandshakeFailed("transport", u.sent \o r2.sent)
       ELSE IF ~is_success(r2.resp)
       THEN HandshakeFailed("ext_auth_sw", u.sent \o r2.sent)
       ELSE [ok |-> TRUE, why |-> "",
             session |-> Scp03NewSession(security_level, u.session_keys,
                                         u.sequence_counter),
             sent |-> u.sent \o r2.sent]

\* the first step of establish_secure_channel: dispatch on the protocol; an
\* unsupported protocol raises before anything is sent
InitializeUpdate(keyset, host_challenge, out1) ==
    IF keyset.protocol = "SCP02"
    THEN Scp02InitializeUpdate(keyset, host_challenge, out1)
    ELSE IF keyset.protocol = "SCP03"
    THEN Scp03InitializeUpdate(keyset, host_challenge, out1)
    ELSE [pass |-> FALSE, why |-> "unsupported", sent |-> <<>>]

\* the second step of establish_secure_channel, after the first step u
ExternalAuthenticate(keyset, u, security_level, out2) ==
    IF keyset.protocol = "SCP02"
    THEN Scp02ExternalAuthenticate(u, security_level, out2)
    ELSE Scp03ExternalAuthenticate(u, security_level, out2)

\* establish_secure_channel, given its first step u: every exception and
\* every False of the handshake ends in False, and only a handshake that ran
\* to its end assigns self.session
establish_secure_channel(keyset, u, security_level, out2) ==
    IF ~u.pass THEN HandshakeFailed(u.why, u.sent)
    ELSE ExternalAuthenticate(keyset, u, security_level, out2)

\* the command send_secure_apdu hands to the card channel, under the session
\* s as it is after the counter increment
WrapCommand(s, command) ==
    LET secure_command ==
            IF s.protocol = "SCP02"
            THEN _apply_scp02_mac(command, s.session_keys)
            ELSE _apply_scp03_mac(command, s.session_keys, s.sequence_counter)
    IN IF s.security_level >= 2
       THEN _encrypt_command_data(s, secure_command)
       ELSE secure_command

\* the session after send_secure_apdu has applied the protocol's step
SessionAfterWrap(s) ==
    IF s.protocol = "SCP03" THEN increment_sequence(s) ELSE s

\* what send_secure_apdu does with the response of the card
UnwrapResponse(s, response) ==
    IF s.security_level >= 2 /\ response.data # <<>>
    THEN IF DecryptRaises(s, response.data)
         THEN Raised("ValueError")
         ELSE [response EXCEPT !.data = _decrypt_response_data(s, response.data)]
    ELSE response

\* send_secure_apdu without the check for an active session: with no session
\* the command goes to the card as it is
send_secure_apdu_unguarded(command, outcome) ==
    IF session = None
    THEN LET r == send_apdu(command, outcome)
         IN [session |-> session, sent |-> r.sent, result |-> r.resp]
    ELSE LET s == SessionAfterWrap(session)
             r == send_apdu(WrapCommand(s, command), outcome)
         IN [session |-> s, sent |-> r.sent,
             result |-> IF r.resp.t = "exception" THEN r.resp
                        ELSE UnwrapResponse(s, r.resp)]

\* send_secure_apdu: [session, sent, result] where result is the response
\* returned or the exception raised
send_secure_apdu(command, outcome) ==
    IF session = None
    THEN [session |-> session, sent |-> <<>>,
          result |-> Raised("No active secure channel")]
    ELSE LET s == SessionAfterWrap(session)
             r == send_apdu(WrapCommand(s, command), outcome)
         IN [session |-> s, sent |-> r.sent,
             result |-> IF r.resp.t = "exception" THEN r.resp
                        ELSE UnwrapResponse(s, r.resp)]

\* a close that leaves the session as it is
close_keeps_session == session

\* close_secure_channel
close_secure_channel == None

\* is_secure_channel_active
is_secure_channel_active == session # None

----------------------------------------------------------------------------
(* The GlobalPlatform command layer (globalplatform.py) *)

\* GlobalPlatformManager.card_manager_aid: A0 00 00 01 51 00 00 00
card_manager_aid == Bs(<<160, 0, 0, 1, 81, 0, 0, 0>>)

\* _build_install_data
_build_install_data(aid, domain_type, privileges) ==
    <<B(0), B(0)>> \o <<B(ByteLen(aid))>> \o aid \o <<B(1), B(privileges)>>
        \o <<B(0), B(0)>>

\* the INSTALL command of create_security_domain
InstallCommand(aid, domain_type, privileges) ==
    APDUCommand(128, 230, 12, 0, _build_install_data(aid, domain_type, privileges), 0)

\* a data_map with the life-cycle states of the OTA builder
data_map_ota(operation) ==
    IF operation = "lock" THEN <<B(131)>>
    ELSE IF operation = "unlock" THEN <<B(7)>>
    ELSE <<B(1)>>

\* perform_clfdb: data_map
data_map(operation) ==
    IF operation = "lock" THEN <<B(135)>>
    ELSE IF operation = "unlock" THEN <<B(7)>>
    ELSE <<B(255)>>

\* perform_clfdb: the operations p1_map knows
ClfdbOperations == {"lock", "unlock", "terminate"}

\* the SET STATUS command of perform_clfdb
ClfdbCommand(target_aid, operation) ==
    APDUCommand(128, 240, 128, 0,
                <<B(ByteLen(target_aid))>> \o target_aid \o data_map(operation), 0)

\* the SET STATUS command of extradite_object
ExtraditeCommand(object_aid, target_sd_aid) ==
    APDUCommand(128, 240, 96, 0,
                <<B(ByteLen(object_aid))>> \o object_aid
                    \o <<B(ByteLen(target_sd_aid))>> \o target_sd_aid, 0)

\* the SELECT command of SmartcardManager.select_application
SelectCommand(aid) == APDUCommand(0, 164, 4, 0, aid, 0)

\* a GlobalPlatform command sends its APDU with self.sc_manager.send_apdu,
\* returns True on 9000 and False on another status word or an exception
GpSend(command, outcome) ==
    LET r == send_apdu(command, outcome)
    IN [sent |-> r.sent, ok |-> r.resp.t = "response" /\ is_success(r.resp)]

\* create_security_domain
create_security_domain(aid, domain_type, privileges, outcome) ==
    GpSend(InstallCommand(aid, domain_type, privileges), outcome)

\* perform_clfdb: an unknown operation raises before any command is built
perform_clfdb(target_aid, operation, outcome) ==
    IF operation \notin ClfdbOperations
    THEN [sent |-> <<>>, ok |-> FALSE]
    ELSE GpSend(ClfdbCommand(target_aid, operation), outcome)

\* extradite_object
extradite_object(object_aid, target_sd_aid, outcome) ==
    GpSend(ExtraditeCommand(object_aid, target_sd_aid), outcome)

\* select_card_manager
select_card_manager(outcome) ==
    GpSend(SelectCommand(card_manager_aid), outcome)

----------------------------------------------------------------------------
(* The environment: readers, keysets, and what a card may answer *)

ReaderNames == {"r1"}

StaticKey(id) == <<Rand(id, 16)>>

KeySets ==
    {KeySet(StaticKey("K_ENC"), StaticKey("K_MAC"), StaticKey("K_DEK"), 1, p) :
        p \in {"SCP02", "SCP03", "SCP01"}}

SecurityLevels == {1, 2, 3}

\* os.urandom(8)
HostChallenges == {<<Rand("host_challenge", 8)>>}

CardChallenge == <<Rand("card_challenge", 8)>>

\* the sequence counters a card may report in INITIALIZE UPDATE
CardSeqValues == {0, 16777215}

\* a cryptogram that does not verify
BadCryptogram == <<Rand("bad_cryptogram", 8)>>

\* INITIALIZE UPDATE response data of an SCP03 card
Scp03InitUpdateData(keyset, host_challenge, seq, good) ==
    LET kdd == <<Rand("kdd", 10)>>
        keys == _derive_scp03_keys(keyset, host_challenge, CardChallenge, kdd)
    IN kdd \o <<B(keyset.key_version), B(3)>> \o Pack3(seq) \o CardChallenge
         \o (IF good
             THEN Scp03CardCryptogram(keys, host_challenge, CardChallenge, seq)
             ELSE BadCryptogram)

\* INITIALIZE UPDATE response data of an SCP02 card
Scp02InitUpdateData(keyset, host_challenge, good) ==
    LET kdd == <<Rand("kdd", 10)>>
        keys == _derive_scp02_keys(keyset, kdd, host_challenge, CardChallenge)
    IN kdd \o <<B(keyset.key_version), B(2)>> \o CardChallenge
         \o (IF good
             THEN Scp02CardCryptogram(keys, host_challenge, CardChallenge)
             ELSE BadCryptogram)

\* what the transmit of INITIALIZE UPDATE may give: a transport error, an
\* error status word, a full response with a good or a bad cryptogram, or a
\* response cut short
InitUpdateOutcomes(keyset, host_challenge) ==
    {TransportError, APDUResponse(<<>>, 27010)}
    \cup (IF keyset.protocol = "SCP03"
          THEN {APDUResponse(Scp03InitUpdateData(keyset, host_challenge, seq, TRUE),
                             36864) : seq \in CardSeqValues}
               \cup {APDUResponse(Scp03InitUpdateData(keyset, host_challenge, 0, FALSE),
                                  36864)}
               \cup {APDUResponse(
                         Slice(Scp03InitUpdateData(keyset, host_challenge, 0, TRUE), 0, n),
                         36864) : n \in {28, 29, 30}}
          ELSE IF keyset.protocol = "SCP02"
          THEN {APDUResponse(Scp02InitUpdateData(keyset, host_challenge, good), 36864) :
                    good \in BOOLEAN}
               \cup {APDUResponse(
                         Slice(Scp02InitUpdateData(keyset, host_challenge, TRUE), 0, 27),
                         36864)}
          ELSE {})

\* the inputs of a handshake up to its first transmit: the keyset, the host
\* challenge drawn, and the outcome of the INITIALIZE UPDATE transmit
HandshakeCases ==
    UNION {{[keyset |-> k, host_challenge |-> hc, out1 |-> o] :
               o \in InitUpdateOutcomes(k, hc) \cup {TransportError}} :
           k \in KeySets, hc \in HostChallenges}

\* what the transmit of EXTERNAL AUTHENTICATE may give
ExtAuthOutcomes ==
    {TransportError, APDUResponse(<<>>, 36864), APDUResponse(<<>>, 25344)}

\* the commands a caller wraps: GET STATUS without data, SET STATUS with data
Commands ==
    {APDUCommand(128, 242, 128, 0, <<>>, 0),
     ClfdbCommand(Bs(<<160, 0, 0, 1, 81>>), "lock")}

\* the plaintext a card returns as response data
CardMessage == Bs(<<1, 2>>)

\* what the transmit of a wrapped command may give under session s: a
\* transport error, an error status word, success without data, success with
\* data encrypted as the session's protocol does, success with plain data
SecureOutcomes(s) ==
    {TransportError, APDUResponse(<<>>, 27272), APDUResponse(<<>>, 36864),
     APDUResponse(CardMessage, 36864)}
    \cup (IF s = None THEN {}
          ELSE IF s.protocol = "SCP02"
          THEN {APDUResponse(_encrypt_des3(s.session_keys.enc, CardMessage), 36864)}
          ELSE {APDUResponse(AesCbc(s.session_keys.enc, Pad80(CardMessage)), 36864)})

\* what the transmit of a GlobalPlatform management command may give
GpOutcomes == {TransportError, APDUResponse(<<>>, 36864), APDUResponse(<<>>, 27013)}

\* the AIDs the management commands are given
AIDs == {Bs(<<160, 0, 0, 1, 81>>)}

----------------------------------------------------------------------------
(* GET STATUS (globalplatform.py) *)

\* value & mask # 0 for a mask of one bit
BitSet(value, mask) == (value \div mask) % 2 = 1

\* an object type that takes bit 0x40 for delegated management
ObjType_bit40(aid, privileges) ==
    IF BitSet(privileges, 128)
    THEN IF aid = card_manager_aid THEN "ISD"
         ELSE IF BitSet(privileges, 64) THEN "DMSD"
         ELSE "SSD"
    ELSE "Application"

\* the object type _parse_status_response derives from privileges and AID
ObjType(aid, privileges) ==
    IF BitSet(privileges, 128)
    THEN IF aid = card_manager_aid THEN "ISD"
         ELSE IF BitSet(privileges, 32) THEN "DMSD"
         ELSE "SSD"
    ELSE "Application"

\* obj_info
ObjInfo(aid, life_cycle, privileges) ==
    [aid |-> aid, life_cycle |-> life_cycle, privileges |-> privileges,
     type |-> ObjType(aid, privileges)]

\* the while loop of _parse_status_response from offset on, objects being the
\* list so far; data is a string of plain bytes
RECURSIVE ParseStatusFrom(_, _, _)
ParseStatusFrom(data, offset, objects) ==
    IF offset >= Len(data) \/ offset + 2 > Len(data) THEN objects
    ELSE LET aid_length == data[offset + 1].v
             aid_at == offset + 1
             lc_at == aid_at + aid_length
         IN IF aid_at + aid_length > Len(data) THEN objects
            ELSE IF lc_at + 1 > Len(data) THEN objects
            ELSE IF lc_at + 2 > Len(data) THEN objects
            ELSE ParseStatusFrom(data, lc_at + 2,
                     Append(objects,
                            ObjInfo(SubSeq(data, aid_at + 1, aid_at + aid_length),
                                    data[lc_at + 1].v, data[lc_at + 2].v)))

\* _parse_status_response
_parse_status_response(data) == ParseStatusFrom(data, 0, <<>>)

\* the GET STATUS command of get_status: the first one carries the AID
\* filter when one is given, a continuation carries no data
GetStatusCommand(p1, p2, aid_filter) ==
    APDUCommand(128, 242, p1, p2,
                IF aid_filter = <<>> THEN <<>>
                ELSE <<B(ByteLen(aid_filter))>> \o aid_filter,
                0)

\* the status word "more data available"
MoreData == 25360

\* a page's objects taking the place of those read so far
ExtendObjects_replacing(objects, response) == _parse_status_response(response.data)

\* objects.extend(self._parse_status_response(response.data))
ExtendObjects(objects, response) == objects \o _parse_status_response(response.data)

\* no get_status call in progress; objects and responses are those of the
\* last call
GsIdle(objects, responses) ==
    [pc |-> "idle", p1 |-> 0, objects |-> objects, responses |-> responses]

\* get_status up to its first response: [sent, gs, returned, raised];
\* returned is whether the call has returned, with gs.objects its result
get_status_first(p1, aid_filter, outcome) ==
    LET r == send_apdu(GetStatusCommand(p1, 0, aid_filter), outcome)
    IN IF r.resp.t = "exception"
       THEN [sent |-> r.sent, gs |-> GsIdle(<<>>, <<>>), returned |-> TRUE,
             raised |-> TRUE]
       ELSE IF is_success(r.resp) \/ r.resp.sw = MoreData
       THEN [sent |-> r.sent,
             gs |-> [pc |-> IF r.resp.sw = MoreData THEN "loop" ELSE "idle",
                     p1 |-> IF r.resp.sw = MoreData THEN p1 ELSE 0,
                     objects |-> ExtendObjects(<<>>, r.resp),
                     responses |-> <<r.resp>>],
             returned |-> r.resp.sw # MoreData, raised |-> FALSE]
       ELSE [sent |-> r.sent, gs |-> GsIdle(<<>>, <<r.resp>>), returned |-> TRUE,
             raised |-> FALSE]

\* one turn of the loop "while response.sw == 0x6310" of get_status
get_status_next(outcome) ==
    LET r == send_apdu(GetStatusCommand(gs.p1, 1, <<>>), outcome)
    IN IF r.resp.t = "exception"
       THEN [sent |-> r.sent, gs |-> GsIdle(<<>>, gs.responses), returned |-> TRUE,
             raised |-> TRUE]
       ELSE IF is_success(r.resp) \/ r.resp.sw = MoreData
       THEN [sent |-> r.sent,
             gs |-> [pc |-> IF r.resp.sw = MoreData THEN "loop" ELSE "idle",
                     p1 |-> IF r.resp.sw = MoreData THEN gs.p1 ELSE 0,
                     objects |-> ExtendObjects(gs.objects, r.resp),
                     responses |-> Append(gs.responses, r.resp)],
             returned |-> r.resp.sw # MoreData, raised |-> FALSE]
       ELSE [sent |-> r.sent,
             gs |-> GsIdle(gs.objects, Append(gs.responses, r.resp)),
             returned |-> TRUE, raised |-> FALSE]

----------------------------------------------------------------------------
(* The keyset and template store (database_manager.py) *)

\* the strings the store orders by, in SQLite's BINARY collation order
SortedStrings ==
    <<"CLFDB", "clfdb_lock", "clfdb_make_selectable", "clfdb_terminate",
      "clfdb_unlock", "default_scp02", "default_scp03", "k1", "production",
      "test_scp03", "testing">>

StrRank(str) == CHOOSE i \in 1..Len(SortedStrings) : SortedStrings[i] = str

\* KeysetRecord as a row of table keysets
KeysetRecord(id, name, value_set, protocol, enc_key, mac_key, dek_key, key_version, security_level, description, created_at, updated_at, is_active) ==
    [id |-> id, name |-> name, value_set |-> value_set, protocol |-> protocol,
     enc_key |-> enc_key, mac_key |-> mac_key, dek_key |-> dek_key,
     key_version |-> key_version, security_level |-> security_level,
     description |-> description, created_at |-> created_at,
     updated_at |-> updated_at, is_active |-> is_active]

\* OTAMessageTemplate as a row of table ota_templates
OTAMessageTemplate(id, name, template_type, spi, kad, tar, cntr, pcntr, command_template, description, created_at, updated_at, is_active) ==
    [id |-> id, name |-> name, template_type |-> template_type, spi |-> spi,
     kad |-> kad, tar |-> tar, cntr |-> cntr, pcntr |-> pcntr,
     command_template |-> command_template, description |-> description,
     created_at |-> created_at, updated_at |-> updated_at, is_active |-> is_active]

\* the store before the first open: no rows.  Rows are never removed, so a
\* table is the sequence of its rows in id order, row i having id i.
EmptyStore == [keysets |-> <<>>, ota_templates |-> <<>>, ota_messages |-> <<>>]

\* default_keysets of _insert_default_data (id, times and flag are set on insert)
default_keysets ==
    <<KeysetRecord(0, "default_scp02", "production", "SCP02",
                   "404142434445464748494A4B4C4D4E4F",
                   "404142434445464748494A4B4C4D4E4F",
                   "404142434445464748494A4B4C4D4E4F", 1, 3,
                   "Default SCP02 production keyset", "", "", TRUE),
      KeysetRecord(0, "default_scp03", "production", "SCP03",
                   "404142434445464748494A4B4C4D4E4F",
                   "404142434445464748494A4B4C4D4E4F",
                   "404142434445464748494A4B4C4D4E4F", 1, 3,
                   "Default SCP03 production keyset", "", "", TRUE),
      KeysetRecord(0, "test_scp03", "testing", "SCP03",
                   "000102030405060708090A0B0C0D0E0F",
                   "101112131415161718191A1B1C1D1E1F",
                   "202122232425262728292A2B2C2D2E2F", 2, 1,
                   "Test SCP03 keyset with different keys", "", "", TRUE)>>

\* one of default_templates
DefaultTemplate(name, description) ==
    OTAMessageTemplate(0, name, "CLFDB", "02", "01", "000000", "000000", "00",
                       "80E600{lifecycle}14{aid_length}{aid}", description,
                       "", "", TRUE)

\* default_templates of _insert_default_data
default_templates ==
    <<DefaultTemplate("clfdb_lock", "CLFDB LOCK operation template"),
      DefaultTemplate("clfdb_unlock", "CLFDB UNLOCK operation template"),
      DefaultTemplate("clfdb_terminate", "CLFDB TERMINATE operation template"),
      DefaultTemplate("clfdb_make_selectable",
                      "CLFDB MAKE_SELECTABLE operation template")>>

\* the constraints of table keysets a new or changed row must meet
\* (CHECK on protocol and security_level)
KeysetChecks(k) ==
    /\ k.protocol \in {"SCP02", "SCP03"}
    /\ k.security_level \in {1, 2, 3}

\* UNIQUE(name, value_set) of table keysets: whether a row, active or not,
\* already has the pair
KeysetPairTaken(rows, name, value_set) ==
    \E i \in 1..Len(rows) : rows[i].name = name /\ rows[i].value_set = value_set

\* INSERT INTO keysets: the rows with the new one appended under the next id
InsertKeyset(rows, k, current_time, is_active) ==
    Append(rows, [k EXCEPT !.id = Len(rows) + 1, !.created_at = current_time,
                           !.updated_at = current_time, !.is_active = is_active])

\* an INSERT OR REPLACE INTO keysets: a row that has the pair is overwritten
\* with the default
InsertOrReplaceKeyset(rows, k, current_time) ==
    IF ~KeysetChecks(k) THEN rows
    ELSE IF KeysetPairTaken(rows, k.name, k.value_set)
    THEN [i \in 1..Len(rows) |->
            IF rows[i].name = k.name /\ rows[i].value_set = k.value_set
            THEN [k EXCEPT !.id = i, !.created_at = current_time,
                           !.updated_at = current_time, !.is_active = TRUE]
            ELSE rows[i]]
    ELSE InsertKeyset(rows, k, current_time, TRUE)

\* INSERT OR IGNORE INTO keysets for one default keyset
InsertOrIgnoreKeyset(rows, k, current_time) ==
    IF KeysetPairTaken(rows, k.name, k.value_set) \/ ~KeysetChecks(k) THEN rows
    ELSE InsertKeyset(rows, k, current_time, TRUE)

\* INSERT OR IGNORE INTO ota_templates for one default template (name UNIQUE)
InsertOrIgnoreTemplate(rows, t, current_time) ==
    IF \E i \in 1..Len(rows) : rows[i].name = t.name THEN rows
    ELSE Append(rows, [t EXCEPT !.id = Len(rows) + 1, !.created_at = current_time,
                                !.updated_at = current_time])

\* the loop "for keyset in default_keysets" over the first n defaults
RECURSIVE SeedKeysets(_, _, _)
SeedKeysets(rows, n, current_time) ==
    IF n = 0 THEN rows
    ELSE InsertOrIgnoreKeyset(SeedKeysets(rows, n - 1, current_time),
                              default_keysets[n], current_time)

\* the loop "for template in default_templates" over the first n defaults
RECURSIVE SeedTemplates(_, _, _)
SeedTemplates(rows, n, current_time) ==
    IF n = 0 THEN rows
    ELSE InsertOrIgnoreTemplate(SeedTemplates(rows, n - 1, current_time),
                                default_templates[n], current_time)

\* _insert_default_data
_insert_default_data(st, current_time) ==
    [st EXCEPT !.keysets = SeedKeysets(@, Len(default_keysets), current_time),
               !.ota_templates = SeedTemplates(@, Len(default_templates),
                                               current_time)]

\* _initialize_database: the tables are created if they do not exist, then
\* the defaults are seeded
_initialize_database(st, current_time) == _insert_default_data(st, current_time)

\* the exception add_keyset raises on an IntegrityError
KeysetExists == Raised("ValueError: Keyset already exists in value set")

\* add_keyset on a table without UNIQUE(name, value_set)
add_keyset_without_unique(st, keyset, current_time) ==
    IF ~KeysetChecks(keyset)
    THEN [store |-> st, result |-> KeysetExists]
    ELSE [store |-> [st EXCEPT !.keysets = InsertKeyset(@, keyset, current_time,
                                                        keyset.is_active)],
          result |-> [t |-> "id", id |-> Len(st.keysets) + 1]]

\* add_keyset: [store, result] where result is the new row's id or the
\* exception raised
add_keyset(st, keyset, current_time) ==
    IF KeysetPairTaken(st.keysets, keyset.name, keyset.value_set)
         \/ ~KeysetChecks(keyset)
    THEN [store |-> st, result |-> KeysetExists]
    ELSE [store |-> [st EXCEPT !.keysets = InsertKeyset(@, keyset, current_time,
                                                        keyset.is_active)],
          result |-> [t |-> "id", id |-> Len(st.keysets) + 1]]

\* the rows a query selects from, in the order of (value_set, name)
RowBefore(a, b) ==
    \/ StrRank(a.value_set) < StrRank(b.value_set)
    \/ /\ a.value_set = b.value_set
       /\ \/ StrRank(a.name) < StrRank(b.name)
          \/ a.name = b.name /\ a.id < b.id

RECURSIVE OrderRows(_)
OrderRows(rowset) ==
    IF rowset = {} THEN <<>>
    ELSE LET first == CHOOSE a \in rowset : \A b \in rowset \ {a} : RowBefore(a, b)
         IN <<first>> \o OrderRows(rowset \ {first})

\* get_keysets: value_set and protocol filter when they are not empty
get_keysets(st, value_set, protocol) ==
    OrderRows({st.keysets[i] : i \in
                 {j \in 1..Len(st.keysets) :
                     /\ st.keysets[j].is_active
                     /\ value_set # "" => st.keysets[j].value_set = value_set
                     /\ protocol # "" => st.keysets[j].protocol = protocol}})

\* get_keyset_by_name
get_keyset_by_name(st, name, value_set) ==
    LET found == {j \in 1..Len(st.keysets) :
                     /\ st.keysets[j].name = name
                     /\ st.keysets[j].value_set = value_set
                     /\ st.keysets[j].is_active}
    IN IF found = {} THEN None
       ELSE st.keysets[CHOOSE j \in found : \A k \in found : j <= k]

\* update_keyset: [store, result]; the row with the record's id takes the
\* record's columns except name, value_set and created_at.  A record that
\* fails a CHECK raises sqlite3.IntegrityError, which returns False.
update_keyset(st, keyset, current_time) ==
    IF keyset.id \notin 1..Len(st.keysets) \/ ~KeysetChecks(keyset)
    THEN [store |-> st, result |-> FALSE]
    ELSE [store |-> [st EXCEPT !.keysets[keyset.id] =
                        [@ EXCEPT !.protocol = keyset.protocol,
                                  !.enc_key = keyset.enc_key,
                                  !.mac_key = keyset.mac_key,
                                  !.dek_key = keyset.dek_key,
                                  !.key_version = keyset.key_version,
                                  !.security_level = keyset.security_level,
                                  !.description = keyset.description,
                                  !.updated_at = current_time,
                                  !.is_active = keyset.is_active]],
          result |-> TRUE]

\* a delete_keyset that removes the row
delete_keyset_removing(st, keyset_id, current_time) ==
    IF keyset_id \notin 1..Len(st.keysets)
    THEN [store |-> st, result |-> FALSE]
    ELSE [store |-> [st EXCEPT !.keysets =
                        SubSeq(@, 1, keyset_id - 1) \o SubSeq(@, keyset_id + 1, Len(@))],
          result |-> TRUE]

\* delete_keyset: [store, result]
delete_keyset(st, keyset_id, current_time) ==
    IF keyset_id \notin 1..Len(st.keysets)
    THEN [store |-> st, result |-> FALSE]
    ELSE [store |-> [st EXCEPT !.keysets[keyset_id].is_active = FALSE,
                               !.keysets[keyset_id].updated_at = current_time],
          result |-> TRUE]

\* get_value_sets
get_value_sets(st) ==
    LET sets == {st.keysets[j].value_set : j \in
                    {i \in 1..Len(st.keysets) : st.keysets[i].is_active}}
    IN [i \in 1..Cardinality(sets) |->
          CHOOSE v \in sets : Cardinality({w \in sets : StrRank(w) < StrRank(v)}) = i - 1]

----------------------------------------------------------------------------
(* The OTA builder's CLFDB command (ota_manager.py) *)

\* CLFDBCommand: lifecycle states
LOADED == 1
INSTALLED == 3
SELECTABLE == 7
LOCKED == 131
UNLOCKED == 7

\* the operations lifecycle_map of _get_lifecycle_state knows
OtaOperations == {"LOCK", "UNLOCK", "TERMINATE", "MAKE_SELECTABLE"}

\* _get_lifecycle_state: the state, or the exception raised
_get_lifecycle_state(operation) ==
    IF operation = "LOCK" THEN [t |-> "int", v |-> LOCKED]
    ELSE IF operation = "UNLOCK" THEN [t |-> "int", v |-> UNLOCKED]
    ELSE IF operation = "TERMINATE" THEN [t |-> "int", v |-> LOADED]
    ELSE IF operation = "MAKE_SELECTABLE" THEN [t |-> "int", v |-> SELECTABLE]
    ELSE Raised("ValueError: Unsupported CLFDB operation")

\* n copies of the byte string s
RECURSIVE Repeat(_, _)
Repeat(s, n) == IF n <= 0 THEN <<>> ELSE s \o Repeat(s, n - 1)

\* _build_clfdb_command: the command APDU, or the exception raised.  The
\* padding is b'\\x00' * padding_needed, and b'\\x00' is the four characters
\* backslash, x, 0, 0.
_build_clfdb_command(aid, lifecycle_state) ==
    IF ByteLen(aid) > 16 THEN Raised("ValueError: AID too long (max 16 bytes)")
    ELSE [t |-> "bytes",
          data |-> <<B(128), B(230), B(0), B(lifecycle_state), B(20),
                     B(ByteLen(aid))>> \o aid
                     \o Repeat(Bs(<<92, 120, 48, 48>>), 19 - ByteLen(aid))]

\* the command APDU create_clfdb_sms_pp builds for operation on target_aid:
\* _get_lifecycle_state, then _build_clfdb_command
ClfdbCommandApdu(target_aid, operation) ==
    LET lifecycle_state == _get_lifecycle_state(operation)
    IN IF lifecycle_state.t = "exception" THEN lifecycle_state
       ELSE _build_clfdb_command(target_aid, lifecycle_state.v)

----------------------------------------------------------------------------
(* The OTA SMS-PP builder (ota_manager.py) *)

\* a str is a sequence of one-character strings; the characters of the
\* hexadecimal strings the store's default rows hold
Chars(str) ==
    CASE str = "00" -> <<"0", "0">>
      [] str = "01" -> <<"0", "1">>
      [] str = "02" -> <<"0", "2">>
      [] str = "03" -> <<"0", "3">>
      [] str = "000000" -> <<"0", "0", "0", "0", "0", "0">>

HexDigits ==
    <<"0", "1", "2", "3", "4", "5", "6", "7", "8", "9", "A", "B", "C", "D", "E", "F">>

IsHexDigit(ch) == \E i \in 1..16 : HexDigits[i] = ch

HexValue(ch) == (CHOOSE i \in 1..16 : HexDigits[i] = ch) - 1

\* whether bytes.fromhex accepts chars: white space before a byte is
\* skipped, each byte is two hexadecimal digits
RECURSIVE HexOk(_)
HexOk(chars) ==
    IF chars = <<>> THEN TRUE
    ELSE IF Head(chars) = " " THEN HexOk(Tail(chars))
    ELSE /\ Len(chars) >= 2
         /\ IsHexDigit(chars[1])
         /\ IsHexDigit(chars[2])
         /\ HexOk(SubSeq(chars, 3, Len(chars)))

\* the bytes bytes.fromhex gives for chars it accepts
RECURSIVE HexBytes(_)
HexBytes(chars) ==
    IF chars = <<>> THEN <<>>
    ELSE IF Head(chars) = " " THEN HexBytes(Tail(chars))
    ELSE <<B(16 * HexValue(chars[1]) + HexValue(chars[2]))>>
           \o HexBytes(SubSeq(chars, 3, Len(chars)))

\* bytes.fromhex: the bytes, or the ValueError raised
fromhex(chars) ==
    IF HexOk(chars) THEN [t |-> "bytes", data |-> HexBytes(chars)]
    ELSE Raised("ValueError: non-hexadecimal number found in fromhex() arg")

\* bytes.hex().upper() of literal bytes
RECURSIVE hex_upper(_)
hex_upper(bytes) ==
    IF bytes = <<>> THEN <<>>
    ELSE <<HexDigits[(Head(bytes).v \div 16) + 1], HexDigits[(Head(bytes).v % 16) + 1]>>
           \o hex_upper(Tail(bytes))

\* bytes.hex().upper() of a byte string with symbolic blocks: the string
\* that spells it
HexString(bytes) == [t |-> "hex", of |-> bytes]

\* int(s, 16) of a two-digit string
int16(str) == HexBytes(Chars(str))[1].v

OTAHeader(spi, kad, tar, cntr, pcntr) ==
    [spi |-> spi, kad |-> kad, tar |-> tar, cntr |-> cntr, pcntr |-> pcntr]

OTAMessage(id, template_id, target_aid, operation, parameters, sms_tpdu, udh, user_data, created_at, status) ==
    [id |-> id, template_id |-> template_id, target_aid |-> target_aid,
     operation |-> operation, parameters |-> parameters, sms_tpdu |-> sms_tpdu,
     udh |-> udh, user_data |-> user_data, created_at |-> created_at,
     status |-> status]

\* _pad_data: PKCS#7
_pad_data(data, block_size) ==
    LET padding_length == block_size - (ByteLen(data) % block_size)
    IN data \o [i \in 1..padding_length |-> B(padding_length)]

\* _encrypt_command: a random IV, then the padded command in CBC mode under
\* the keyset's enc_key (AES for SCP03, else triple DES)
_encrypt_command(command, keyset_record) ==
    IF keyset_record.protocol = "SCP03"
    THEN LET iv == <<Rand("ota_iv", 16)>>
             padded_command == _pad_data(command, 16)
         IN iv \o <<Blob("aes_cbc", keyset_record.enc_key,
                         [iv |-> iv, data |-> padded_command],
                         ByteLen(padded_command))>>
    ELSE LET iv == <<Rand("ota_iv", 8)>>
             padded_command == _pad_data(command, 8)
         IN iv \o <<Blob("des3_cbc", keyset_record.enc_key,
                         [iv |-> iv, data |-> padded_command],
                         ByteLen(padded_command))>>

\* _calculate_ota_mac: the first 8 bytes of the CMAC of data under the
\* keyset's mac_key (AES for SCP03, else triple DES)
_calculate_ota_mac(data, keyset_record) ==
    IF keyset_record.protocol = "SCP03"
    THEN Slice(<<Blob("aes_cmac", keyset_record.mac_key, data, 16)>>, 0, 8)
    ELSE Slice(<<Blob("des3_cmac", keyset_record.mac_key, data, 8)>>, 0, 8)

\* the OTA header _secure_ota_command writes first
OtaHeaderBytes(ota_header) ==
    <<B(ota_header.spi), B(ota_header.kad)>> \o ota_header.tar
        \o ota_header.cntr \o <<B(ota_header.pcntr)>>

\* _secure_ota_command
_secure_ota_command(command, ota_header, keyset_record) ==
    LET secured_data == OtaHeaderBytes(ota_header)
    IN IF BitSet(ota_header.spi, 1)
       THEN LET body == IF BitSet(ota_header.spi, 2)
                        THEN secured_data \o _encrypt_command(command, keyset_record)
                        ELSE secured_data \o command
            IN body \o _calculate_ota_mac(body, keyset_record)
       ELSE secured_data \o command

\* _create_sms_pp_envelope: <<udh, user_data>>
_create_sms_pp_envelope(secured_command, ota_header) ==
    <<(<<B(112), B(ByteLen(secured_command))>>), secured_command>>

\* _create_sms_tpdu
_create_sms_tpdu(udh, user_data) ==
    <<B(68), B(10), B(145), B(33), B(67), B(101), B(135), B(9), B(127), B(0)>>
        \o Zeros(7)
        \o <<B(ByteLen(udh) + ByteLen(user_data) + 1), B(ByteLen(udh))>>
        \o udh \o user_data

\* add_ota_message: [store, id]
add_ota_message(st, message, current_time) ==
    [store |-> [st EXCEPT !.ota_messages =
                    Append(@, [message EXCEPT !.id = Len(st.ota_messages) + 1,
                                              !.created_at = current_time])],
     id |-> Len(st.ota_messages) + 1]

\* add_ota_template: [store, result]
add_ota_template(st, template, current_time) ==
    IF \E i \in 1..Len(st.ota_templates) : st.ota_templates[i].name = template.name
    THEN [store |-> st, result |-> Raised("ValueError: OTA template already exists")]
    ELSE [store |-> [st EXCEPT !.ota_templates =
                        Append(@, [template EXCEPT !.id = Len(st.ota_templates) + 1,
                                                   !.created_at = current_time,
                                                   !.updated_at = current_time])],
          result |-> [t |-> "id", id |-> Len(st.ota_templates) + 1]]

\* next((t for t in get_ota_templates(template_type) if t.name ==
\* template_name), None); template_type "" stands for no filter
FindTemplate(st, template_type, template_name) ==
    LET found == {i \in 1..Len(st.ota_templates) :
                     /\ st.ota_templates[i].is_active
                     /\ template_type # "" =>
                           st.ota_templates[i].template_type = template_type
                     /\ st.ota_templates[i].name = template_name}
    IN IF found = {} THEN None ELSE st.ota_templates[CHOOSE i \in found : TRUE]

\* OTAHeader(...) as both builders fill it from the template
HeaderOfTemplate(template) ==
    OTAHeader(int16(template.spi), int16(template.kad),
              fromhex(Chars(template.tar)).data, fromhex(Chars(template.cntr)).data,
              int16(template.pcntr))

\* the tail both builders share: secure the command, wrap it, persist the
\* message with status "CREATED", return it with its id.  [store, result]
SecureAndPersist(st, template, keyset_record, command_data, target_aid, operation, parameters, current_time) ==
    LET ota_header == HeaderOfTemplate(template)
        secured_command == _secure_ota_command(command_data, ota_header, keyset_record)
        envelope == _create_sms_pp_envelope(secured_command, ota_header)
        sms_tpdu == _create_sms_tpdu(envelope[1], envelope[2])
        message == OTAMessage(0, template.id, target_aid, operation, parameters,
                              HexString(sms_tpdu), HexString(envelope[1]),
                              HexString(envelope[2]), "", "CREATED")
        added == add_ota_message(st, message, current_time)
    IN [store |-> added.store,
        result |-> [message EXCEPT !.id = added.id, !.created_at = current_time]]

\* create_clfdb_sms_pp: [store, result]; result is the OTAMessage or the
\* exception raised
create_clfdb_sms_pp(st, template_name, target_aid, operation, keyset_name, value_set, current_time) ==
    LET template == FindTemplate(st, "CLFDB", template_name)
        keyset_record == get_keyset_by_name(st, keyset_name, value_set)
        lifecycle_state == _get_lifecycle_state(operation)
        aid_bytes == fromhex(target_aid)
        command_data == _build_clfdb_command(aid_bytes.data, lifecycle_state.v)
    IN IF template = None
       THEN [store |-> st, result |-> Raised("ValueError: OTA template not found")]
       ELSE IF keyset_record = None
       THEN [store |-> st, result |-> Raised("ValueError: Keyset not found in value set")]
       ELSE IF lifecycle_state.t = "exception"
       THEN [store |-> st, result |-> lifecycle_state]
       ELSE IF aid_bytes.t = "exception"
       THEN [store |-> st, result |-> aid_bytes]
       ELSE IF command_data.t = "exception"
       THEN [store |-> st, result |-> command_data]
       ELSE SecureAndPersist(st, template, keyset_record, command_data.data,
                             target_aid, operation, "{}", current_time)

\* a create_custom_ota_command that records the request in ota_messages
\* before it parses the APDU
create_custom_ota_command_recording_first(st, template_name, target_aid, custom_apdu, keyset_name, value_set, current_time) ==
    LET template == FindTemplate(st, "", template_name)
        keyset_record == get_keyset_by_name(st, keyset_name, value_set)
        command_data == fromhex(custom_apdu)
        request == OTAMessage(0, template.id, target_aid, "CUSTOM",
                              [custom_apdu |-> custom_apdu], "", "", "", "", "FAILED")
    IN IF template = None
       THEN [store |-> st, result |-> Raised("ValueError: OTA template not found")]
       ELSE IF keyset_record = None
       THEN [store |-> st, result |-> Raised("ValueError: Keyset not found in value set")]
       ELSE IF command_data.t = "exception"
       THEN [store |-> add_ota_message(st, request, current_time).store,
             result |-> Raised("ValueError: Invalid APDU hex format")]
       ELSE SecureAndPersist(st, template, keyset_record, command_data.data,
                             target_aid, "CUSTOM",
                             [custom_apdu |-> custom_apdu], current_time)

\* create_custom_ota_command: [store, result]
create_custom_ota_command(st, template_name, target_aid, custom_apdu, keyset_name, value_set, current_time) ==
    LET template == FindTemplate(st, "", template_name)
        keyset_record == get_keyset_by_name(st, keyset_name, value_set)
        command_data == fromhex(custom_apdu)
    IN IF template = None
       THEN [store |-> st, result |-> Raised("ValueError: OTA template not found")]
       ELSE IF keyset_record = None
       THEN [store |-> st, result |-> Raised("ValueError: Keyset not found in value set")]
       ELSE IF command_data.t = "exception"
       THEN [store |-> st, result |-> Raised("ValueError: Invalid APDU hex format")]
       ELSE SecureAndPersist(st, template, keyset_record, command_data.data,
                             target_aid, "CUSTOM",
                             [custom_apdu |-> custom_apdu], current_time)

\* validate_aid
validate_aid(aid) ==
    LET aid_bytes == fromhex(aid)
    IN IF aid_bytes.t = "exception" THEN FALSE
       ELSE 5 <= Len(aid_bytes.data) /\ Len(aid_bytes.data) <= 16

----------------------------------------------------------------------------
(* The configuration manager's keysets (config_manager.py) *)

\* the key strings of the model that are 32 hexadecimal digits
LongHexKeys ==
    {"404142434445464748494A4B4C4D4E4F", "000102030405060708090A0B0C0D0E0F",
     "101112131415161718191A1B1C1D1E1F", "202122232425262728292A2B2C2D2E2F"}

\* whether a key string is hexadecimal, and its length; beside the long keys
\* there are "4041" and strings of two characters that are not hex
IsHexText(str) == str \in LongHexKeys \cup {"4041"}
TextLen(str) == IF str \in LongHexKeys THEN 32 ELSE IF str = "4041" THEN 4 ELSE 2

\* KeySet.from_hex: the keyset of the bytes the strings spell, or the
\* ValueError of bytes.fromhex
from_hex(enc_hex, mac_hex, dek_hex, key_version, protocol) ==
    IF IsHexText(enc_hex) /\ IsHexText(mac_hex) /\ IsHexText(dek_hex)
    THEN KeySet(<<Rand(enc_hex, TextLen(enc_hex) \div 2)>>,
                <<Rand(mac_hex, TextLen(mac_hex) \div 2)>>,
                <<Rand(dek_hex, TextLen(dek_hex) \div 2)>>, key_version, protocol)
    ELSE Raised("ValueError: non-hexadecimal number found in fromhex() arg")

\* self.keysets[key] = keyset.  A key f"{a}:{b}" is the pair <<a, b>>, a key
\* that is a plain name is <<name>>.
DictSet(dict, key, value) ==
    [k \in DOMAIN dict \cup {key} |-> IF k = key THEN value ELSE dict[k]]

\* the loop of load_keysets_from_database from record i on: an exception of
\* from_hex ends the loop, what was loaded before stays
RECURSIVE LoadRecords(_, _, _)
LoadRecords(dict, records, i) ==
    IF i > Len(records) THEN dict
    ELSE LET record == records[i]
             keyset == from_hex(record.enc_key, record.mac_key, record.dek_key,
                                record.key_version, record.protocol)
         IN IF "msg" \in DOMAIN keyset THEN dict
            ELSE LoadRecords(DictSet(dict, <<record.value_set, record.name>>, keyset),
                             records, i + 1)

\* load_keysets_from_database
load_keysets_from_database(dict, st) == LoadRecords(dict, get_keysets(st, "", ""), 1)

\* ConfigManager.delete_keyset: [store, keysets, result]; the row is
\* soft-deleted in the store and, when that succeeded, the cache is reloaded
\* over what it holds
ConfigManager_delete_keyset(st, dict, keyset_id, current_time) ==
    LET r == delete_keyset(st, keyset_id, current_time)
    IN [store |-> r.store,
        keysets |-> IF r.result THEN load_keysets_from_database(dict, r.store)
                    ELSE dict,
        result |-> r.result]

\* validate_keyset
validate_keyset(keyset_data) ==
    /\ {"protocol", "enc_key", "mac_key", "dek_key", "key_version"}
          \subseteq DOMAIN keyset_data
    /\ keyset_data.protocol \in {"SCP02", "SCP03"}
    /\ \A key_field \in {"enc_key", "mac_key", "dek_key"} :
          TextLen(keyset_data[key_field]) = 32 /\ IsHexText(keyset_data[key_field])
    /\ keyset_data.key_version \in 0..255

\* create_keyset_from_dict
create_keyset_from_dict(keyset_data) ==
    IF ~validate_keyset(keyset_data) THEN None
    ELSE from_hex(keyset_data.enc_key, keyset_data.mac_key, keyset_data.dek_key,
                  keyset_data.key_version, keyset_data.protocol)

\* a configuration directory without keysets.yaml
NoFile == [t |-> "no_file"]

\* a YAML file with a keysets section: its entries in file order
YamlFile(entries) == [t |-> "yaml", keysets |-> entries]

\* a YAML file without a keysets section
NoKeysetsSection == [t |-> "yaml_without_keysets"]

\* the loop of load_keysets_from_yaml (the definition in force, the later
\* one of the class) from entry i on
RECURSIVE LoadEntries(_, _, _)
LoadEntries(dict, entries, i) ==
    IF i > Len(entries) THEN dict
    ELSE LET keyset == create_keyset_from_dict(entries[i].data)
         IN LoadEntries(IF validate_keyset(entries[i].data) /\ keyset # None
                        THEN DictSet(dict, <<"yaml", entries[i].name>>, keyset)
                        ELSE dict,
                        entries, i + 1)

\* load_keysets_from_yaml
load_keysets_from_yaml(dict, file) ==
    IF file.t = "yaml" THEN LoadEntries(dict, file.keysets, 1) ELSE dict

\* ConfigManager(config_dir) over the store st, keysets.yaml being file:
\* the store is opened, then load_all_configs.  [store, keysets]
NewConfigManager(st, file, current_time) ==
    LET opened == _initialize_database(st, current_time)
    IN [store |-> opened,
        keysets |-> load_keysets_from_yaml(
                        load_keysets_from_database(<<>>, opened), file)]

\* get_keyset (the definition in force): self.keysets.get(name)
get_keyset(dict, name) == IF name \in DOMAIN dict THEN dict[name] ELSE None

\* list_keysets: the keys, in no order
list_keysets(dict) == DOMAIN dict

\* keyset_data.get(field, default)
DataGet(keyset_data, field, default) ==
    IF field \in DOMAIN keyset_data THEN keyset_data[field] ELSE default

\* the first definition of add_keyset in the class, which writes to the
\* store, called as import_keysets_from_yaml calls it.  [store, keysets,
\* raised]: it raises only when the call's arguments cannot be evaluated
\* (a field the entry lacks); every failure inside is caught and gives False
add_keyset_with_keywords_to_store(st, dict, name, value_set, keyset_data, current_time) ==
    IF ~({"protocol", "enc_key", "mac_key", "dek_key", "key_version"}
            \subseteq DOMAIN keyset_data)
    THEN [store |-> st, keysets |-> dict, raised |-> TRUE]
    ELSE LET keyset_record ==
                 KeysetRecord(0, name, value_set, keyset_data.protocol,
                              keyset_data.enc_key, keyset_data.mac_key,
                              keyset_data.dek_key, keyset_data.key_version,
                              DataGet(keyset_data, "security_level", 3),
                              DataGet(keyset_data, "description", "Imported"),
                              "", "", TRUE)
             added == add_keyset(st, keyset_record, current_time)
             keyset == from_hex(keyset_data.enc_key, keyset_data.mac_key,
                                keyset_data.dek_key, keyset_data.key_version,
                                keyset_data.protocol)
         IN IF added.result.t = "exception"
            THEN [store |-> st, keysets |-> dict, raised |-> FALSE]
            ELSE IF "msg" \in DOMAIN keyset
            THEN [store |-> added.store, keysets |-> dict, raised |-> FALSE]
            ELSE [store |-> added.store,
                  keysets |-> DictSet(dict, <<value_set, name>>, keyset),
                  raised |-> FALSE]

\* self.add_keyset(name=..., value_set=..., protocol=..., ...) as
\* import_keysets_from_yaml calls it.  The name add_keyset is bound to the
\* last definition in the class, add_keyset(self, name, keyset), which has no
\* parameter value_set: the call raises TypeError (or KeyError, when the
\* entry lacks a field) and nothing is done.  [store, keysets, raised]
add_keyset_with_keywords(st, dict, name, value_set, keyset_data, current_time) ==
    [store |-> st, keysets |-> dict, raised |-> TRUE]

\* the loop of import_keysets_from_yaml from entry i on; acc is [store,
\* keysets, imported, skipped, counted], counted saying entry by entry
\* whether it was counted as imported
RECURSIVE ImportEntries(_, _, _, _, _)
ImportEntries(acc, entries, i, target_value_set, current_time) ==
    IF i > Len(entries) THEN acc
    ELSE LET r == add_keyset_with_keywords(acc.store, acc.keysets, entries[i].name,
                                           target_value_set, entries[i].data,
                                           current_time)
         IN ImportEntries([store |-> r.store, keysets |-> r.keysets,
                           imported |-> acc.imported + (IF r.raised THEN 0 ELSE 1),
                           skipped |-> acc.skipped + (IF r.raised THEN 1 ELSE 0),
                           counted |-> Append(acc.counted, ~r.raised)],
                          entries, i + 1, target_value_set, current_time)

\* import_keysets_from_yaml: [store, keysets, imported, skipped, counted];
\* a file that cannot be read or has no keysets section gives (0, 0)
import_keysets_from_yaml(st, dict, file, target_value_set, current_time) ==
    LET start == [store |-> st, keysets |-> dict, imported |-> 0, skipped |-> 0,
                  counted |-> <<>>]
    IN IF file.t # "yaml" THEN start
       ELSE ImportEntries(start, file.keysets, 1, target_value_set, current_time)

----------------------------------------------------------------------------
(* State *)

NoHist == [seq0 |-> 0, calls |-> 0]

\* the callers that may be inside a call at the same time
CallerIds == {"a", "b"}

\* a caller that is inside no call
Idle == [pc |-> "idle"]

\* no caller is inside a call and nothing has reached the card
NoCallers == [at |-> [c \in CallerIds |-> Idle], wire |-> <<>>]

\* the record of the last operation: its name, whether it succeeded, why it
\* did not, the command it was given, what it returned or raised, and
\* whether a session was open when it was called
\* and, for the operations whose arguments are no APDU command, the arguments
RetArgs(op, ok, why, command, result, args) ==
    [op |-> op, ok |-> ok, why |-> why, command |-> command, result |-> result,
     open_before |-> session # None, args |-> args]

Ret(op, ok, why, command, result) == RetArgs(op, ok, why, command, result, None)

\* SmartcardManager(), SecureChannelManager(sc_manager), SmartcardCLI(), and
\* DatabaseManager() on a path where no store exists yet
Init ==
    /\ readers = [r \in ReaderNames |-> [exists |-> FALSE, connected |-> FALSE]]
    /\ active_reader = NoReader
    /\ session = None
    /\ cli = [connected_reader |-> NoReader, secure_channel_active |-> FALSE]
    /\ hist = NoHist
    /\ tx = <<>>
    /\ ret = Ret("init", TRUE, "", None, None)
    /\ gs = GsIdle(<<>>, <<>>)
    /\ store = _initialize_database(EmptyStore, "t0")
    /\ keysets = NewConfigManager(EmptyStore, NoFile, "t0").keysets
    /\ callers = NoCallers

----------------------------------------------------------------------------
(* Operations of the card channel *)

\* SmartcardManager.connect_to_reader with SmartcardReader.connect: the
\* reader object is created on first use; connect succeeds or times out
connect_to_reader(reader_name, connects) ==
    /\ readers' = [readers EXCEPT ![reader_name] =
                      [exists |-> TRUE, connected |-> connects \/ @.connected]]
    /\ active_reader' = IF connects THEN reader_name ELSE active_reader

\* SmartcardManager.disconnect_all with SmartcardReader.disconnect: failing
\* are the readers whose connection.disconnect() raises (logged, swallowed)
disconnect_all(failing) ==
    /\ readers' = [r \in DOMAIN readers |->
                      IF readers[r].exists /\ readers[r].connected /\ r \notin failing
                      THEN [readers[r] EXCEPT !.connected = FALSE]
                      ELSE readers[r]]
    /\ active_reader' = NoReader

ConnectToReader ==
    \E reader_name \in DOMAIN readers, connects \in BOOLEAN :
        /\ connect_to_reader(reader_name, connects)
        /\ tx' = <<>>
        /\ ret' = Ret("connect_to_reader", connects, "", None, None)
        /\ UNCHANGED <<session, cli, hist>>
        /\ UNCHANGED beside_card

DisconnectAll ==
    \E failing \in SUBSET DOMAIN readers :
        /\ disconnect_all(failing)
        /\ tx' = <<>>
        /\ ret' = Ret("disconnect_all", TRUE, "", None, None)
        /\ UNCHANGED <<session, cli, hist>>
        /\ UNCHANGED beside_card

----------------------------------------------------------------------------
(* Operations of the secure channel engine *)

\* the history of the session a handshake outcome leaves
HistAfterHandshake(h) ==
    IF h.ok THEN [seq0 |-> h.session.sequence_counter, calls |-> 0]
    ELSE hist

\* the security level and the outcome of the second transmit matter only to
\* a handshake whose first step passed
EstablishSecureChannel ==
    \E c \in HandshakeCases :
      \E u \in {InitializeUpdate(c.keyset, c.host_challenge, c.out1)} :
        \E security_level \in (IF u.pass THEN SecurityLevels ELSE {3}),
           out2 \in (IF u.pass THEN ExtAuthOutcomes ELSE {TransportError}) :
          \E h \in {establish_secure_channel(c.keyset, u, security_level, out2)} :
               /\ session' = h.session
               /\ hist' = HistAfterHandshake(h)
               /\ tx' = h.sent
               /\ ret' = RetArgs("establish_secure_channel", h.ok, h.why, None, None,
                                 [case |-> c, security_level |-> security_level,
                                  out2 |-> out2])
               /\ UNCHANGED <<readers, active_reader, cli>>
               /\ UNCHANGED beside_card

\* the history after a send_secure_apdu on an open session
HistAfterSend == [hist EXCEPT !.calls = @ + 1]

SendSecureApdu ==
    \E command \in Commands, outcome \in SecureOutcomes(session) :
      \E r \in {send_secure_apdu(command, outcome)} :
           /\ session = None \/ hist.calls < MaxSends
           /\ session' = r.session
           /\ hist' = IF session = None THEN hist ELSE HistAfterSend
           /\ tx' = r.sent
           /\ ret' = Ret("send_secure_apdu", r.result.t = "response", "", command,
                         r.result)
           /\ UNCHANGED <<readers, active_reader, cli>>
           /\ UNCHANGED beside_card

CloseSecureChannel ==
    /\ session' = close_secure_channel
    /\ hist' = NoHist
    /\ tx' = <<>>
    /\ ret' = Ret("close_secure_channel", TRUE, "", None, None)
    /\ UNCHANGED <<readers, active_reader, cli>>
    /\ UNCHANGED beside_card

----------------------------------------------------------------------------
(* Operations of the GlobalPlatform layer *)

GpDone(op, command, g) ==
    /\ tx' = g.sent
    /\ ret' = Ret(op, g.ok, "", command, None)
    /\ UNCHANGED <<readers, active_reader, session, cli, hist>>
    /\ UNCHANGED beside_card

CreateSecurityDomain ==
    \E aid \in AIDs, outcome \in GpOutcomes :
        GpDone("create_security_domain", InstallCommand(aid, "SSD", 128),
               create_security_domain(aid, "SSD", 128, outcome))

PerformClfdb ==
    \E target_aid \in AIDs, operation \in ClfdbOperations \cup {"unknown"},
       outcome \in GpOutcomes :
      \E g \in {perform_clfdb(target_aid, operation, outcome)} :
        /\ tx' = g.sent
        /\ ret' = RetArgs("perform_clfdb", g.ok, "",
                          ClfdbCommand(target_aid, operation), None,
                          [target_aid |-> target_aid, operation |-> operation])
        /\ UNCHANGED <<readers, active_reader, session, cli, hist>>
        /\ UNCHANGED beside_card

ExtraditeObject ==
    \E object_aid \in AIDs, outcome \in GpOutcomes :
        GpDone("extradite_object", ExtraditeCommand(object_aid, card_manager_aid),
               extradite_object(object_aid, card_manager_aid, outcome))

----------------------------------------------------------------------------
(* The library driven directly: any caller, any order of calls *)

Next ==
    \/ ConnectToReader
    \/ DisconnectAll
    \/ EstablishSecureChannel
    \/ SendSecureApdu
    \/ CloseSecureChannel
    \/ CreateSecurityDomain
    \/ PerformClfdb
    \/ ExtraditeObject

Spec == Init /\ [][Next]_vars

----------------------------------------------------------------------------
(* The command-line session facade (ccm_tool.py) *)

\* connect: on success the reader is remembered and the Card Manager is
\* selected (a failure to select is only a warning)
CliConnect ==
    \E reader_name \in ReaderNames, connects \in BOOLEAN, outcome \in GpOutcomes :
        /\ connect_to_reader(reader_name, connects)
        /\ cli' = IF connects THEN [cli EXCEPT !.connected_reader = reader_name]
                  ELSE cli
        /\ tx' = IF connects THEN select_card_manager(outcome).sent ELSE <<>>
        /\ ret' = Ret("cli_connect", connects, "", None, None)
        /\ UNCHANGED <<session, hist>>
        /\ UNCHANGED beside_card

\* disconnect: an active secure channel is closed first
CliDisconnect ==
    \E failing \in SUBSET ReaderNames :
        /\ session' = IF cli.secure_channel_active THEN close_secure_channel
                      ELSE session
        /\ hist' = IF cli.secure_channel_active THEN NoHist ELSE hist
        /\ disconnect_all(failing)
        /\ cli' = [connected_reader |-> NoReader, secure_channel_active |-> FALSE]
        /\ tx' = <<>>
        /\ ret' = Ret("cli_disconnect", TRUE, "", None, None)
        /\ UNCHANGED beside_card

\* establish-secure-channel: needs a connected reader and a keyset that
\* config_manager.get_keyset finds (found is its result, None when absent)
CliEstablishSecureChannel ==
    \E c \in HandshakeCases, found \in BOOLEAN :
      \E u \in {InitializeUpdate(c.keyset, c.host_challenge, c.out1)} :
        \E security_level \in (IF u.pass THEN SecurityLevels ELSE {3}),
           out2 \in (IF u.pass THEN ExtAuthOutcomes ELSE {TransportError}) :
          \E h \in {establish_secure_channel(c.keyset, u, security_level, out2)} :
             IF cli.connected_reader = NoReader \/ ~found
             THEN /\ tx' = <<>>
                  /\ ret' = Ret("cli_establish_secure_channel", FALSE,
                                IF cli.connected_reader = NoReader
                                THEN "not_connected" ELSE "keyset_not_found",
                                None, None)
                  /\ UNCHANGED <<readers, active_reader, session, cli, hist>>
                  /\ UNCHANGED beside_card
             ELSE /\ session' = h.session
                  /\ hist' = HistAfterHandshake(h)
                  /\ cli' = IF h.ok THEN [cli EXCEPT !.secure_channel_active = TRUE]
                            ELSE cli
                  /\ tx' = h.sent
                  /\ ret' = Ret("cli_establish_secure_channel", h.ok, h.why, None, None)
                  /\ UNCHANGED <<readers, active_reader>>
                  /\ UNCHANGED beside_card

\* close-secure-channel
CliCloseSecureChannel ==
    /\ session' = IF cli.secure_channel_active THEN close_secure_channel ELSE session
    /\ hist' = IF cli.secure_channel_active THEN NoHist ELSE hist
    /\ cli' = [cli EXCEPT !.secure_channel_active = FALSE]
    /\ tx' = <<>>
    /\ ret' = Ret("cli_close_secure_channel", cli.secure_channel_active, "", None, None)
    /\ UNCHANGED <<readers, active_reader>>
    /\ UNCHANGED beside_card

\* the refusals of a facade command without the check of secure_channel_active
CliRefusal_without_channel_check(valid_hex) ==
    IF cli.connected_reader = NoReader THEN "not_connected"
    ELSE IF ~valid_hex THEN "invalid_aid"
    ELSE ""

\* the checks create-security-domain, clfdb and extradite make before they
\* call the GlobalPlatform layer; valid_hex is whether bytes.fromhex accepts
\* the AID arguments.  The reason the command is refused, "" when it is not.
CliRefusal(valid_hex) ==
    IF cli.connected_reader = NoReader THEN "not_connected"
    ELSE IF ~cli.secure_channel_active THEN "secure_channel_required"
    ELSE IF ~valid_hex THEN "invalid_aid"
    ELSE ""

\* a facade command that requires a secure channel: refused, or handed to
\* the GlobalPlatform layer whose result is g
CliGpDone(op, valid_hex, command, g) ==
    /\ tx' = IF CliRefusal(valid_hex) # "" THEN <<>> ELSE g.sent
    /\ ret' = Ret(op, CliRefusal(valid_hex) = "" /\ g.ok, CliRefusal(valid_hex),
                  command, None)
    /\ UNCHANGED <<readers, active_reader, session, cli, hist>>
    /\ UNCHANGED beside_card

CliCreateSecurityDomain ==
    \E aid \in AIDs, valid_hex \in BOOLEAN, outcome \in GpOutcomes :
        CliGpDone("cli_create_security_domain", valid_hex,
                  InstallCommand(aid, "SSD", 128),
                  create_security_domain(aid, "SSD", 128, outcome))

CliClfdb ==
    \E target_aid \in AIDs, valid_hex \in BOOLEAN, operation \in ClfdbOperations,
       outcome \in GpOutcomes :
        CliGpDone("cli_clfdb", valid_hex, ClfdbCommand(target_aid, operation),
                  perform_clfdb(target_aid, operation, outcome))

CliExtradite ==
    \E object_aid \in AIDs, valid_hex \in BOOLEAN, outcome \in GpOutcomes :
        CliGpDone("cli_extradite", valid_hex,
                  ExtraditeCommand(object_aid, card_manager_aid),
                  extradite_object(object_aid, card_manager_aid, outcome))

\* one SmartcardCLI object driven by any sequence of its commands
NextCLI ==
    \/ CliConnect
    \/ CliDisconnect
    \/ CliEstablishSecureChannel
    \/ CliCloseSecureChannel
    \/ CliCreateSecurityDomain
    \/ CliClfdb
    \/ CliExtradite

SpecCLI == Init /\ [][NextCLI]_vars

----------------------------------------------------------------------------
(* get_status against a card (globalplatform.py) *)

\* an entry of a GET STATUS response as the card holds it
StatusEntry(aid, life_cycle, privileges) ==
    [aid |-> aid, life_cycle |-> life_cycle, privileges |-> privileges]

\* the entry on the wire: AID_len | AID | life-cycle | privileges
EncodeEntry(e) ==
    <<B(ByteLen(e.aid))>> \o e.aid \o <<B(e.life_cycle), B(e.privileges)>>

\* the response data that carries the entries, in order
RECURSIVE EncodePage(_)
EncodePage(entries) ==
    IF entries = <<>> THEN <<>>
    ELSE EncodeEntry(Head(entries)) \o EncodePage(Tail(entries))

\* the pages a card may answer with: the issuer security domain, other
\* security domains with and without delegated management, applications
StatusPages ==
    {<<>>,
     <<StatusEntry(card_manager_aid, 15, 128)>>,
     <<StatusEntry(Bs(<<160, 0, 0, 1, 81, 83>>), 15, 128),
       StatusEntry(Bs(<<160, 0, 0, 0, 98, 3, 1>>), 7, 0)>>,
     <<StatusEntry(Bs(<<160, 0, 0, 1, 81, 68>>), 15, 160),
       StatusEntry(Bs(<<160, 0, 0, 0, 98, 3, 2>>), 7, 32)>>,
     <<StatusEntry(card_manager_aid, 15, 160),
       StatusEntry(card_manager_aid, 1, 0)>>}

\* what the transmit of a GET STATUS may give: a transport error, a page
\* with 9000, with 6310 or with an error status word, or a page cut short
StatusOutcomes ==
    {TransportError,
     APDUResponse(SubSeq(EncodePage(<<StatusEntry(card_manager_aid, 15, 128)>>),
                         1, 9), 36864)}
    \cup {APDUResponse(EncodePage(p), sw) :
            p \in StatusPages, sw \in {36864, MoreData, 27272}}

\* the p1 and aid_filter arguments get_status is called with
StatusP1s == {128, 64}
StatusFilters == {<<>>, Bs(<<160, 0, 0, 1, 81>>)}

\* the record of a get_status step g: the call has returned its objects, or
\* is still paging
GetStatusRet(g, args) ==
    RetArgs("get_status", g.returned /\ ~g.raised,
            IF ~g.returned THEN "paging" ELSE IF g.raised THEN "exception" ELSE "",
            None,
            IF g.returned THEN [t |-> "objects", objects |-> g.gs.objects] ELSE None,
            args)

\* get_status is called and receives the answer to its first command
GetStatus ==
    \E p1 \in StatusP1s, aid_filter \in StatusFilters, outcome \in StatusOutcomes :
      \E g \in {get_status_first(p1, aid_filter, outcome)} :
        /\ gs.pc = "idle"
        /\ gs' = g.gs
        /\ tx' = g.sent
        /\ ret' = GetStatusRet(g, [p1 |-> p1, aid_filter |-> aid_filter])
        /\ UNCHANGED <<readers, active_reader, session, cli, hist, keysets, store, callers>>

\* get_status sends a continuation and receives its answer
GetStatusNext ==
    \E outcome \in StatusOutcomes :
      \E g \in {get_status_next(outcome)} :
        /\ gs.pc = "loop"
        /\ Len(gs.responses) < MaxPages
        /\ gs' = g.gs
        /\ tx' = tx \o g.sent
        /\ ret' = GetStatusRet(g, ret.args)
        /\ UNCHANGED <<readers, active_reader, session, cli, hist, keysets, store, callers>>

\* the GlobalPlatform layer listing the card's content over the card channel;
\* the caller is single-threaded, so nothing else runs inside a get_status
NextStatus ==
    \/ gs.pc = "idle" /\ ConnectToReader
    \/ gs.pc = "idle" /\ DisconnectAll
    \/ GetStatus
    \/ GetStatusNext

SpecStatus == Init /\ [][NextStatus]_vars

----------------------------------------------------------------------------
(* get_status run to its end: the loop is not cut off at MaxPages *)

\* what the transmit of a continuation may give here: a transport error, or
\* a page without entries with 9000, with 6310 or with an error status word
ContinuationOutcomes ==
    {TransportError} \cup {APDUResponse(<<>>, sw) : sw \in {36864, MoreData, 27272}}

\* the locals of get_status as the loop has them after turn number turn; of
\* the responses read the last MaxPages are kept, and the turns are counted
\* modulo 2
AfterTurn(g, turn) ==
    [pc |-> g.pc, p1 |-> g.p1, objects |-> g.objects,
     responses |-> SubSeq(g.responses,
                          Max(1, Len(g.responses) - MaxPages + 1), Len(g.responses)),
     turn |-> turn % 2]

\* get_status is called and receives the answer to its first command
GetStatusCalled ==
    \E p1 \in StatusP1s, aid_filter \in StatusFilters, outcome \in StatusOutcomes :
      \E g \in {get_status_first(p1, aid_filter, outcome)} :
        /\ gs.pc = "idle"
        /\ gs' = AfterTurn(g.gs, 0)
        /\ tx' = g.sent
        /\ ret' = GetStatusRet(g, [p1 |-> p1, aid_filter |-> aid_filter])
        /\ UNCHANGED <<readers, active_reader, session, cli, hist, keysets, store, callers>>

\* one turn of "while response.sw == 0x6310", whatever the number of turns
\* before it
GetStatusTurn ==
    \E outcome \in ContinuationOutcomes :
      \E g \in {get_status_next(outcome)} :
        /\ gs.pc = "loop"
        /\ gs' = AfterTurn(g.gs, gs.turn + 1)
        /\ tx' = g.sent
        /\ ret' = GetStatusRet(g, ret.args)
        /\ UNCHANGED <<readers, active_reader, session, cli, hist, keysets, store, callers>>

NextStatusLive ==
    \/ gs.pc = "idle" /\ ConnectToReader
    \/ GetStatusCalled
    \/ GetStatusTurn

\* the caller's thread keeps running: a get_status inside its loop takes
\* its next turn
SpecStatusLive == Init /\ [][NextStatusLive]_vars /\ WF_vars(GetStatusTurn)

----------------------------------------------------------------------------
(* The store driven by its callers (database_manager.py, ota_manager.py) *)

\* what datetime.now().isoformat() gives after the first open at "t0"
Times == {"t1"}

\* a KeysetRecord a caller builds
NewKeyset(name, value_set, protocol, enc_key) ==
    KeysetRecord(0, name, value_set, protocol, enc_key, enc_key, enc_key, 1, 3,
                 "", "", "", TRUE)

\* the records add_keyset is given: the pair of a default keyset, a new
\* pair, and a protocol the table's CHECK rejects
NewKeysets ==
    {NewKeyset("default_scp02", "production", "SCP03", "K2"),
     NewKeyset("k1", "production", "SCP03", "K2"),
     NewKeyset("k1", "production", "SCP01", "K2")}

\* the records update_keyset is given for id: the row as a caller read it
\* while it was active, with new keys or with a protocol the CHECK rejects
KeysetChanges == {"keys", "protocol"}

ChangedKeyset(id, change) ==
    LET row == IF id \in 1..Len(store.keysets) THEN store.keysets[id]
               ELSE [NewKeyset("k1", "production", "SCP03", "K2") EXCEPT !.id = id]
    IN IF change = "keys"
       THEN [row EXCEPT !.enc_key = "K2", !.mac_key = "K2", !.dek_key = "K2",
                        !.is_active = TRUE]
       ELSE [row EXCEPT !.protocol = "SCP01", !.is_active = TRUE]

\* the ids update_keyset and delete_keyset are given: every row's, and one
\* that no row has
KeysetIds == 1..(Len(store.keysets) + 1)

\* DatabaseManager(db_path) on the existing store
OpenStore ==
    \E current_time \in Times :
        /\ store' = _initialize_database(store, current_time)
        /\ ret' = RetArgs("open", TRUE, "", None, None, None)
        /\ tx' = <<>>
        /\ UNCHANGED <<readers, active_reader, session, cli, hist, gs, callers, keysets>>

AddKeyset ==
    \E keyset \in NewKeysets, current_time \in Times :
      \E r \in {add_keyset(store, keyset, current_time)} :
        /\ store' = r.store
        /\ ret' = RetArgs("add_keyset", r.result.t = "id", "", None, r.result, keyset)
        /\ tx' = <<>>
        /\ UNCHANGED <<readers, active_reader, session, cli, hist, gs, callers, keysets>>

UpdateKeyset ==
    \E id \in KeysetIds, change \in KeysetChanges, current_time \in Times :
      \E r \in {update_keyset(store, ChangedKeyset(id, change), current_time)} :
        /\ store' = r.store
        /\ ret' = RetArgs("update_keyset", r.result, "", None, None,
                          ChangedKeyset(id, change))
        /\ tx' = <<>>
        /\ UNCHANGED <<readers, active_reader, session, cli, hist, gs, callers, keysets>>

DeleteKeysetOf(ids) ==
    \E keyset_id \in ids, current_time \in Times :
      \E r \in {delete_keyset(store, keyset_id, current_time)} :
        /\ store' = r.store
        /\ ret' = RetArgs("delete_keyset", r.result, "", None, None,
                          [keyset_id |-> keyset_id])
        /\ tx' = <<>>
        /\ UNCHANGED <<readers, active_reader, session, cli, hist, gs, callers, keysets>>

DeleteKeyset == DeleteKeysetOf(KeysetIds)

\* the target AIDs the OTA builder is given: 5, 8, 16 and 17 bytes
OtaAids ==
    {Bs(<<160, 0, 0, 1, 81>>), card_manager_aid,
     card_manager_aid \o card_manager_aid,
     card_manager_aid \o card_manager_aid \o <<B(1)>>}

\* the operation names the OTA builder is given
OtaOperationNames == OtaOperations \cup {"lock", "DELETE"}

\* the OTA builder works out the command APDU of a CLFDB message
BuildClfdbCommand ==
    \E target_aid \in OtaAids, operation \in OtaOperationNames :
        /\ ret' = RetArgs("clfdb_command_apdu",
                          ClfdbCommandApdu(target_aid, operation).t = "bytes", "",
                          None, ClfdbCommandApdu(target_aid, operation),
                          [target_aid |-> target_aid, operation |-> operation])
        /\ tx' = <<>>
        /\ UNCHANGED <<readers, active_reader, session, cli, hist, gs, callers, keysets, store>>

NextStore ==
    \/ OpenStore
    \/ AddKeyset
    \/ UpdateKeyset
    \/ DeleteKeyset
    \/ BuildClfdbCommand

SpecStore == Init /\ [][NextStore]_vars

----------------------------------------------------------------------------
(* The OTA builder driven by its callers (ota_manager.py) *)

\* the templates a caller adds beside the defaults (whose SPI is 02): one
\* name, with each other setting of the two low SPI bits, and once with a
\* type that is not CLFDB
NewTemplates ==
    {OTAMessageTemplate(0, "t1", tt[1], tt[2], "01", "000000", "000000", "00",
                        "", "", "", "", TRUE) :
        tt \in {<<"CLFDB", "00">>, <<"CLFDB", "01">>, <<"CLFDB", "03">>,
                <<"CUSTOM", "03">>}}

\* target AIDs as strings: the hex of 4, 5, 16 and 17 bytes, and ten
\* characters that are not hex
Aid4 == hex_upper(Bs(<<160, 0, 0, 1>>))
Aid5 == hex_upper(Bs(<<160, 0, 0, 1, 81>>))
Aid16 == hex_upper(card_manager_aid \o card_manager_aid)
Aid17 == hex_upper(card_manager_aid \o card_manager_aid \o <<B(1)>>)
AidNotHex == <<"A", "0", "0", "0", "Z", "Z", "0", "1", "5", "1">>

\* the strings validate_aid is given: those, hex with white space between
\* the bytes, an odd number of digits, the empty string
AidStrings ==
    {Aid4, Aid5, Aid16, Aid17, AidNotHex,
     <<"A", "0", " ", "0", "0", " ", "0", "0", " ", "0", "1", " ", "5", "1">>,
     <<"A", "0", "0", "0", "0", "0", "0", "1", "5">>,
     <<>>}

\* the calls of create_clfdb_sms_pp: template_name, target_aid, operation,
\* keyset_name, value_set.  A default template and the added one, an SCP02
\* and an SCP03 keyset, and one call for each way the arguments can be wrong
ClfdbCalls ==
    {<<"clfdb_lock", Aid5, "LOCK", "default_scp02", "production">>,
     <<"t1", Aid5, "UNLOCK", "test_scp03", "testing">>,
     <<"t1", Aid4, "LOCK", "default_scp02", "production">>,
     <<"missing", Aid5, "LOCK", "default_scp02", "production">>,
     <<"clfdb_lock", Aid5, "LOCK", "default_scp02", "testing">>,
     <<"clfdb_lock", Aid5, "DELETE", "default_scp02", "production">>,
     <<"clfdb_lock", AidNotHex, "LOCK", "default_scp02", "production">>,
     <<"clfdb_lock", Aid17, "LOCK", "default_scp02", "production">>}

GetStatusApdu == hex_upper(Bs(<<128, 242, 64, 0>>))

\* the calls of create_custom_ota_command: template_name, target_aid,
\* custom_apdu, keyset_name, value_set
CustomCalls ==
    {<<"clfdb_lock", Aid5, GetStatusApdu, "default_scp02", "production">>,
     <<"t1", AidNotHex, GetStatusApdu, "test_scp03", "testing">>,
     <<"t1", Aid5, <<"8", "0", "F", "2", "4">>, "default_scp02", "production">>,
     <<"missing", Aid5, GetStatusApdu, "default_scp02", "production">>,
     <<"clfdb_lock", Aid5, GetStatusApdu, "default_scp02", "testing">>}

\* how many messages the builders may persist before the model stops them
MaxMessages == 2

IsMessage(result) == "status" \in DOMAIN result

AddOtaTemplate ==
    \E template \in NewTemplates, current_time \in Times :
      \E r \in {add_ota_template(store, template, current_time)} :
        /\ store' = r.store
        /\ ret' = RetArgs("add_ota_template", r.result.t = "id", "", None,
                          r.result, template)
        /\ tx' = <<>>
        /\ UNCHANGED <<readers, active_reader, session, cli, hist, gs, callers, keysets>>

CreateClfdbSmsPp ==
    /\ Len(store.ota_messages) < MaxMessages
    /\ \E c \in ClfdbCalls, current_time \in Times :
        \E r \in {create_clfdb_sms_pp(store, c[1], c[2], c[3], c[4], c[5],
                                      current_time)} :
          /\ store' = r.store
          /\ ret' = RetArgs("create_clfdb_sms_pp", IsMessage(r.result), "", None,
                            r.result,
                            [template_name |-> c[1], target_aid |-> c[2],
                             operation |-> c[3], keyset_name |-> c[4],
                             value_set |-> c[5]])
          /\ tx' = <<>>
          /\ UNCHANGED <<readers, active_reader, session, cli, hist, gs, callers, keysets>>

CreateCustomOtaCommand ==
    /\ Len(store.ota_messages) < MaxMessages
    /\ \E c \in CustomCalls, current_time \in Times :
        \E r \in {create_custom_ota_command(store, c[1], c[2], c[3], c[4], c[5],
                                            current_time)} :
          /\ store' = r.store
          /\ ret' = RetArgs("create_custom_ota_command", IsMessage(r.result), "",
                            None, r.result,
                            [template_name |-> c[1], target_aid |-> c[2],
                             custom_apdu |-> c[3], keyset_name |-> c[4],
                             value_set |-> c[5]])
          /\ tx' = <<>>
          /\ UNCHANGED <<readers, active_reader, session, cli, hist, gs, callers, keysets>>

ValidateAid ==
    \E aid \in AidStrings :
        /\ ret' = RetArgs("validate_aid", TRUE, "", None, validate_aid(aid),
                          [aid |-> aid])
        /\ tx' = <<>>
        /\ UNCHANGED <<readers, active_reader, session, cli, hist, gs, callers, keysets, store>>

\* the keyset most builder calls name (default_scp02 in production) is
\* soft-deleted
DeleteBuilderKeyset == DeleteKeysetOf({1})

NextOta ==
    \/ AddOtaTemplate
    \/ CreateClfdbSmsPp
    \/ CreateCustomOtaCommand
    \/ ValidateAid
    \/ DeleteBuilderKeyset

SpecOta == Init /\ [][NextOta]_vars

----------------------------------------------------------------------------
(* The configuration manager driven by its callers (config_manager.py) *)

\* the data of a keysets.yaml entry: the five required fields
KeysetData(protocol, enc_key, key_version) ==
    [protocol |-> protocol, enc_key |-> enc_key, mac_key |-> enc_key,
     dek_key |-> enc_key, key_version |-> key_version]

YamlEntry(name, data) == [name |-> name, data |-> data]

\* entries: a new name, the name of a default keyset of value set
\* production, a protocol that is none, and an entry without dek_key
EntryNew == YamlEntry("k1", KeysetData("SCP03", "404142434445464748494A4B4C4D4E4F", 1))
EntryDefault == YamlEntry("default_scp02", KeysetData("SCP02", "404142434445464748494A4B4C4D4E4F", 2))
EntryBadProtocol == YamlEntry("k2", KeysetData("SCP01", "404142434445464748494A4B4C4D4E4F", 1))
EntryNoDek == YamlEntry("k3", [protocol |-> "SCP03", enc_key |-> "4041", mac_key |-> "4041", key_version |-> 1])

\* the keysets.yaml files of the model
YamlFiles ==
    {NoFile, NoKeysetsSection, YamlFile(<<>>), YamlFile(<<EntryNew>>),
     YamlFile(<<EntryNew, EntryDefault>>),
     YamlFile(<<EntryDefault, EntryBadProtocol, EntryNoDek>>)}

\* the value sets import_keysets_from_yaml is given
TargetValueSets == {"production", "staging"}

\* ConfigManager(config_dir)
ConstructConfigManager ==
    \E file \in YamlFiles, current_time \in Times :
      \E c \in {NewConfigManager(store, file, current_time)} :
        /\ store' = c.store
        /\ keysets' = c.keysets
        /\ ret' = RetArgs("ConfigManager", TRUE, "", None, None, file)
        /\ tx' = <<>>
        /\ UNCHANGED <<readers, active_reader, session, cli, hist, gs, callers>>

ImportKeysetsFromYaml ==
    \E file \in YamlFiles, target_value_set \in TargetValueSets,
       current_time \in Times :
      \E r \in {import_keysets_from_yaml(store, keysets, file, target_value_set,
                                         current_time)} :
        /\ store' = r.store
        /\ keysets' = r.keysets
        /\ ret' = RetArgs("import_keysets_from_yaml", TRUE, "", None,
                          [imported |-> r.imported, skipped |-> r.skipped,
                           counted |-> r.counted],
                          [file |-> file, target_value_set |-> target_value_set])
        /\ tx' = <<>>
        /\ UNCHANGED <<readers, active_reader, session, cli, hist, gs, callers>>

\* ConfigManager.delete_keyset
ConfigDeleteKeyset ==
    \E keyset_id \in KeysetIds, current_time \in Times :
      \E r \in {ConfigManager_delete_keyset(store, keysets, keyset_id, current_time)} :
        /\ store' = r.store
        /\ keysets' = r.keysets
        /\ ret' = RetArgs("ConfigManager.delete_keyset", r.result, "", None, None,
                          [keyset_id |-> keyset_id])
        /\ tx' = <<>>
        /\ UNCHANGED <<readers, active_reader, session, cli, hist, gs, callers>>

NextConfig ==
    \/ ConstructConfigManager
    \/ ImportKeysetsFromYaml
    \/ AddKeyset
    \/ DeleteKeyset
    \/ ConfigDeleteKeyset

SpecConfig == Init /\ [][NextConfig]_vars

----------------------------------------------------------------------------
(* APDU encoding, response parsing and padding, applied to given values *)

\* the commands to_bytes is given: without data, with one and with four data
\* bytes; with le 0, 1 and 255
CodecCommands ==
    {APDUCommand(cla, ins, 128, 0, data, le) :
        cla \in {0, 128}, ins \in {164, 242},
        data \in {<<>>, Bs(<<79>>), Bs(<<4, 1, 2, 3>>)}, le \in {0, 1, 255}}

\* the byte lists a card returns: none, one or two data bytes before a
\* status word; and lists too short to hold a status word
CardReplies ==
    {data \o Bs(<<sw1, sw2>>) :
        data \in {<<>>, Bs(<<1>>), Bs(<<1, 2>>)},
        sw1 \in {97, 98, 99, 100, 106, 144}, sw2 \in {0, 16, 130, 255}}
    \cup {<<>>, Bs(<<144>>)}

\* the messages the engine pads: of 0, 1, 15, 16, 17 and 31 bytes, and
\* messages that end in 00, in 80 and in a small number
PaddedMessages ==
    {<<>>, Bs(<<1>>), Bs(<<1, 0>>), Bs(<<1, 128>>), Bs(<<7, 2>>)}
    \cup {[i \in 1..n |-> B(i)] : n \in {15, 16, 17, 31}}

\* an open SCP03 session at security level 3, as far as the padding goes
PaddingSession ==
    [protocol |-> "SCP03", security_level |-> 3,
     session_keys |-> [enc |-> StaticKey("S_ENC"), mac |-> StaticKey("S_MAC"),
                       dek |-> StaticKey("S_DEK")]]

ToBytes ==
    \E command \in CodecCommands :
        /\ ret' = RetArgs("to_bytes", TRUE, "", command, to_bytes(command), None)
        /\ tx' = <<>>
        /\ UNCHANGED <<readers, active_reader, session, cli, hist, gs, callers, keysets, store>>

ParseResponse ==
    \E data \in CardReplies :
      \E r \in {NewAPDUResponse(data)} :
        /\ ret' = RetArgs("APDUResponse", r.t = "response", "", None,
                          IF r.t = "response"
                          THEN [response |-> r, is_success |-> is_success(r),
                                is_warning |-> is_warning(r)]
                          ELSE r,
                          data)
        /\ tx' = <<>>
        /\ UNCHANGED <<readers, active_reader, session, cli, hist, gs, callers, keysets, store>>

PadRoundTrip ==
    \E m \in PaddedMessages :
        /\ ret' = RetArgs("encrypt_then_decrypt", TRUE, "", None,
                          EncryptThenDecrypt(PaddingSession, m), m)
        /\ tx' = <<>>
        /\ UNCHANGED <<readers, active_reader, session, cli, hist, gs, callers, keysets, store>>

NextCodec ==
    \/ ToBytes
    \/ ParseResponse
    \/ PadRoundTrip

SpecCodec == Init /\ [][NextCodec]_vars

----------------------------------------------------------------------------
(* The card channel with two readers attached *)

\* the PC/SC readers list_readers reports on a host with two of them
TwoReaders == {"r1", "r2"}

\* SmartcardManager() on that host: no reader object exists yet
InitReaders ==
    /\ readers = [r \in TwoReaders |-> [exists |-> FALSE, connected |-> FALSE]]
    /\ active_reader = NoReader
    /\ session = None
    /\ cli = [connected_reader |-> NoReader, secure_channel_active |-> FALSE]
    /\ hist = NoHist
    /\ tx = <<>>
    /\ ret = Ret("init", TRUE, "", None, None)
    /\ gs = GsIdle(<<>>, <<>>)
    /\ store = _initialize_database(EmptyStore, "t0")
    /\ keysets = NewConfigManager(EmptyStore, NoFile, "t0").keysets
    /\ callers = NoCallers

\* SmartcardManager.send_apdu called directly, outside a secure channel
SendApdu ==
    \E command \in Commands, outcome \in GpOutcomes :
      \E r \in {send_apdu(command, outcome)} :
           /\ tx' = r.sent
           /\ ret' = Ret("send_apdu", r.resp.t = "response", "", command, r.resp)
           /\ UNCHANGED <<readers, active_reader, session, cli, hist>>
           /\ UNCHANGED beside_card

\* SmartcardManager.select_application: SELECT by AID through send_apdu
SelectApplication ==
    \E aid \in AIDs \cup {card_manager_aid}, outcome \in GpOutcomes :
      \E r \in {send_apdu(SelectCommand(aid), outcome)} :
           /\ tx' = r.sent
           /\ ret' = Ret("select_application", r.resp.t = "response", "",
                         SelectCommand(aid), r.resp)
           /\ UNCHANGED <<readers, active_reader, session, cli, hist>>
           /\ UNCHANGED beside_card

NextReaders ==
    \/ ConnectToReader
    \/ DisconnectAll
    \/ SendApdu
    \/ SelectApplication

SpecReaders == InitReaders /\ [][NextReaders]_vars

----------------------------------------------------------------------------
(* One session used by two threads (gui_app.py starts a thread per refresh) *)

\* the callers that are inside send_secure_apdu
InFlight == {c \in CallerIds : callers.at[c].pc # "idle"}

\* the handshakes with a card whose INITIALIZE UPDATE response is complete
\* and verifies
CardAnswers ==
    {c \in HandshakeCases :
        /\ c.out1 # TransportError
        /\ ByteLen(c.out1.data) = (IF c.keyset.protocol = "SCP03" THEN 31 ELSE 28)
        /\ InitializeUpdate(c.keyset, c.host_challenge, c.out1).pass}

\* what each caller sends: the refresh thread lists the card's content (GET
\* STATUS), the main thread sets a life cycle state (SET STATUS)
CallerCommand(c) ==
    IF c = "a" THEN APDUCommand(128, 242, 128, 0, <<>>, 0)
    ELSE ClfdbCommand(Bs(<<160, 0, 0, 1, 81>>), "lock")

\* what the transmit of a wrapped command gives here: an error or success
ThreadOutcomes == {TransportError, APDUResponse(<<>>, 36864)}

\* establish_secure_channel while no caller is inside a send; what reached
\* the card under the session before is forgotten
EstablishBetweenCalls ==
    \E c \in CardAnswers :
      \E u \in {InitializeUpdate(c.keyset, c.host_challenge, c.out1)} :
        \E security_level \in {1, 3}, out2 \in ExtAuthOutcomes :
          \E h \in {establish_secure_channel(c.keyset, u, security_level, out2)} :
               /\ InFlight = {}
               /\ session' = h.session
               /\ hist' = HistAfterHandshake(h)
               /\ tx' = h.sent
               /\ ret' = Ret("establish_secure_channel", h.ok, h.why, None, None)
               /\ callers' = NoCallers
               /\ UNCHANGED <<readers, active_reader, cli, gs, store, keysets>>

\* send_secure_apdu, the check for a session: raise, or go on to the
\* protocol's step (SCP03 increments the counter first)
SendBegin ==
    \E c \in CallerIds : \E command \in {CallerCommand(c)} :
        /\ callers.at[c].pc = "idle"
        /\ session = None \/ hist.calls + Cardinality(InFlight) < MaxSends
        /\ IF session = None
           THEN /\ ret' = Ret("send_secure_apdu", FALSE, "", command,
                              Raised("No active secure channel"))
                /\ tx' = <<>>
                /\ UNCHANGED callers
           ELSE /\ callers' = [callers EXCEPT !.at[c] =
                                  [pc |-> IF session.protocol = "SCP03"
                                          THEN "load" ELSE "mac",
                                   command |-> command,
                                   issued |-> hist.calls + Cardinality(InFlight)]]
                /\ UNCHANGED <<tx, ret>>
        /\ UNCHANGED <<readers, active_reader, session, cli, hist, gs, store, keysets>>

\* increment_sequence, the read of self.sequence_counter
SendLoad ==
    \E c \in CallerIds :
        /\ callers.at[c].pc = "load"
        /\ callers' = [callers EXCEPT !.at[c] =
                          [pc |-> "store", command |-> @.command, issued |-> @.issued,
                           loaded |-> session.sequence_counter]]
        /\ UNCHANGED <<readers, active_reader, session, cli, hist, tx, ret, gs, store, keysets>>

\* increment_sequence, the assignment to self.sequence_counter
SendStore ==
    \E c \in CallerIds :
        /\ callers.at[c].pc = "store"
        /\ session' = [session EXCEPT !.sequence_counter =
                          (callers.at[c].loaded + 1) % 16777216]
        /\ callers' = [callers EXCEPT !.at[c] =
                          [pc |-> "mac", command |-> @.command, issued |-> @.issued]]
        /\ UNCHANGED <<readers, active_reader, cli, hist, tx, ret, gs, store, keysets>>

\* the MAC over the command, for SCP03 with self.session.sequence_counter as
\* it is now, and the encryption of the data
SendWrap ==
    \E c \in CallerIds :
        /\ callers.at[c].pc = "mac"
        /\ callers' = [callers EXCEPT !.at[c] =
                          [pc |-> "transmit", command |-> @.command,
                           issued |-> @.issued,
                           counter |-> session.sequence_counter,
                           secure_command |-> WrapCommand(session, @.command)]]
        /\ UNCHANGED <<readers, active_reader, session, cli, hist, tx, ret, gs, store, keysets>>

\* what one transmitted command leaves on the wire
OnWire(at) ==
    [caller_issued |-> at.issued, protocol |-> session.protocol, counter |-> at.counter]

\* sc_manager.send_apdu(secure_command), the decryption of the response and
\* the return
SendTransmit ==
    \E c \in {d \in CallerIds : callers.at[d].pc = "transmit"},
       outcome \in ThreadOutcomes :
      \E r \in {send_apdu(callers.at[c].secure_command, outcome)} :
        /\ callers.at[c].pc = "transmit"
        /\ callers' = [at |-> [callers.at EXCEPT ![c] = Idle],
                       wire |-> IF r.sent = <<>> THEN callers.wire
                                ELSE Append(callers.wire, OnWire(callers.at[c]))]
        /\ hist' = HistAfterSend
        /\ tx' = r.sent
        /\ ret' = Ret("send_secure_apdu", r.resp.t = "response", "",
                      callers.at[c].command,
                      IF r.resp.t = "exception" THEN r.resp
                      ELSE UnwrapResponse(session, r.resp))
        /\ UNCHANGED <<readers, active_reader, session, cli, gs, store, keysets>>

NextThreads ==
    \/ ConnectToReader
    \/ EstablishBetweenCalls
    \/ SendBegin
    \/ SendLoad
    \/ SendStore
    \/ SendWrap
    \/ SendTransmit

SpecThreads == Init /\ [][NextThreads]_vars

----------------------------------------------------------------------------
(* One store used by two sessions (config_manager.py, database_manager.py) *)

\* how many update_keyset calls the sessions make before the model stops
MaxUpdates == 3

\* the keyword arguments each session gives update_keyset: session a edits
\* the description, session b the key version or the security level
SessionChanges(c) ==
    IF c = "a" THEN {[description |-> "edited by a"], [description |-> ""]}
    ELSE {[key_version |-> 2], [security_level |-> 1], [no_such_field |-> 1]}

\* the record with ConfigManager.update_keyset's setattr loop applied: a
\* keyword that names no attribute of the record is skipped
SetAttrs(keyset_record, kwargs) ==
    [f \in DOMAIN keyset_record |->
        IF f \in DOMAIN kwargs THEN kwargs[f] ELSE keyset_record[f]]

\* the sessions that are between the read and the write of an update
Updating == {c \in CallerIds : callers.at[c].pc # "idle"}

\* ConfigManager.update_keyset up to the write: the record is read with
\* get_keysets() and the keyword arguments are set on the copy; an id that no
\* active row has returns False
UpdateRead ==
    \E c \in CallerIds, keyset_id \in {1, 2, 4} :
      \E kwargs \in SessionChanges(c) :
        \E found \in {{k \in Range(get_keysets(store, "", "")) : k.id = keyset_id}} :
          /\ callers.at[c].pc = "idle"
          /\ Len(callers.wire) + Cardinality(Updating) < MaxUpdates
          /\ IF found = {}
             THEN /\ ret' = RetArgs("update_keyset", FALSE, "", None, None,
                                    [keyset_id |-> keyset_id, kwargs |-> kwargs])
                  /\ UNCHANGED callers
             ELSE /\ callers' = [callers EXCEPT !.at[c] =
                                    [pc |-> "write", kwargs |-> kwargs,
                                     keyset_record |->
                                        SetAttrs(CHOOSE k \in found : TRUE, kwargs)]]
                  /\ UNCHANGED ret
          /\ UNCHANGED <<readers, active_reader, session, cli, hist, tx, gs, store, keysets>>

\* ConfigManager.update_keyset from the write on: DatabaseManager.update_keyset
\* writes every column of the copy in one UPDATE, and the cache is reloaded
\* (keysets is the cache of session a's ConfigManager)
UpdateWrite ==
    \E c \in {d \in CallerIds : callers.at[d].pc = "write"}, current_time \in Times :
      \E r \in {update_keyset(store, callers.at[c].keyset_record, current_time)} :
        /\ store' = r.store
        /\ keysets' = IF r.result /\ c = "a"
                      THEN load_keysets_from_database(keysets, r.store)
                      ELSE keysets
        /\ callers' = [at |-> [callers.at EXCEPT ![c] = Idle],
                       wire |-> IF r.result
                                THEN Append(callers.wire,
                                            [id |-> callers.at[c].keyset_record.id,
                                             kwargs |-> callers.at[c].kwargs])
                                ELSE callers.wire]
        /\ ret' = RetArgs("update_keyset", r.result, "", None, None,
                          [keyset_id |-> callers.at[c].keyset_record.id,
                           kwargs |-> callers.at[c].kwargs])
        /\ UNCHANGED <<readers, active_reader, session, cli, hist, tx, gs>>

NextSessions ==
    \/ UpdateRead
    \/ UpdateWrite

SpecSessions == Init /\ [][NextSessions]_vars

----------------------------------------------------------------------------
(* Properties of the secure channel engine's lifecycle *)

\* C1 (as claimed): whenever establish_secure_channel fails, for whatever
\* reason, the engine is Closed afterwards (no session, is_secure_channel_active
\* false), also when a session was open before the call.
C1_FailedEstablishIsClosed ==
    (ret.op = "establish_secure_channel" /\ ~ret.ok) => ~is_secure_channel_active

\* C2: in the Closed state send_secure_apdu raises "No active secure channel",
\* hands nothing to transmit, and leaves the engine Closed.
C2_ClosedRejectsSend ==
    [][(session = None /\ ret'.op = "send_secure_apdu")
         => /\ ret'.result = Raised("No active secure channel")
            /\ tx' = <<>>
            /\ session' = None]_vars

\* C2 witness: a send was rejected in the Closed state although the card
\* channel could transmit.
C2_Witness ==
    /\ ret.op = "send_secure_apdu"
    /\ session = None
    /\ ret.result = Raised("No active secure channel")
    /\ CanTransmit

\* C3 (as claimed): when the transmit of a wrapped command fails with a
\* transport error, the engine is Closed afterwards.
C3_TransportErrorClosesSession ==
    (ret.op = "send_secure_apdu" /\ ret.result = Raised("APDU transmission failed"))
        => ~is_secure_channel_active

\* C4: close_secure_channel always ends Closed, from an open or a closed
\* engine, and a second close right after a close changes nothing.
C4_CloseEndsClosed ==
    [][ret'.op = "close_secure_channel"
         => /\ session' = None
            /\ ~is_secure_channel_active'
            /\ (ret.op = "close_secure_channel"
                  => UNCHANGED <<readers, active_reader, session, cli>>)]_vars

\* C4 witness: close was called on an open session and the engine is Closed.
C4_Witness ==
    /\ ret.op = "close_secure_channel"
    /\ ret.open_before
    /\ session = None

\* the operations of the GlobalPlatform layer
GpOps == {"create_security_domain", "perform_clfdb", "extradite_object"}

\* C5 (as claimed): a GlobalPlatform command issued while a session is open is
\* handed to transmit as the secure channel engine wraps it, and is handed
\* over raw only when no session is open.
C5_GpCommandsWrappedWhenOpen ==
    (ret.op \in GpOps /\ tx # <<>>)
        => IF is_secure_channel_active
           THEN tx = <<WrapCommand(session, ret.command)>>
           ELSE tx = <<ret.command>>

\* the facade commands that require a secure channel
CliSecureOps == {"cli_create_security_domain", "cli_clfdb", "cli_extradite"}

\* C6: a facade command that requires a secure channel, issued while no
\* session is open, fails and hands no APDU to transmit.
C6_FacadeRequiresSession ==
    (ret.op \in CliSecureOps /\ ~is_secure_channel_active)
        => (~ret.ok /\ tx = <<>>)

\* C6 witness: clfdb was refused for want of a secure channel on a connected
\* reader that could transmit.
C6_Witness ==
    /\ ret.op = "cli_clfdb"
    /\ ~is_secure_channel_active
    /\ ret.why = "secure_channel_required"
    /\ CanTransmit

\* C7 (as claimed): after disconnect_all on the card channel no session is
\* active.
C7_DisconnectEndsSession ==
    ret.op = "disconnect_all" => ~is_secure_channel_active

\* C8 (as claimed): in an open SCP03 session the counter is its value at
\* session creation plus the number of commands wrapped since, so it never
\* decreases and never repeats, and the last command's C-MAC is computed with it.
C8_CounterAdvancesMonotonically ==
    (is_secure_channel_active /\ session.protocol = "SCP03")
        => /\ session.sequence_counter = hist.seq0 + hist.calls
           /\ (ret.op = "send_secure_apdu" /\ tx # <<>> /\ session.security_level = 1)
                  => tx[1].data = ret.command.data
                                    \o Scp03Mac(ret.command, session.session_keys,
                                                hist.seq0 + hist.calls)

\* the all-zero seed of the chaining value
ChainSeed(s) == IF s.protocol = "SCP02" THEN Zeros(8) ELSE Zeros(16)

\* C9 (as claimed): once a command has been wrapped and sent, the stored
\* chaining value is no longer the all-zero seed.
C9_MacChainProgresses ==
    (is_secure_channel_active /\ ret.op = "send_secure_apdu" /\ tx # <<>>)
        => session.mac_chaining_value # ChainSeed(session)

\* C10 (as claimed): right after a successful SCP03 handshake the session has
\* a chaining value of 16 zero bytes and a sequence counter of 0.
C10_NewScp03SessionStartsAtZero ==
    (ret.op = "establish_secure_channel" /\ ret.ok /\ session.protocol = "SCP03")
        => /\ session.mac_chaining_value = Zeros(16)
           /\ session.sequence_counter = 0

----------------------------------------------------------------------------
(* Properties of the wrap and unwrap of send_secure_apdu *)

\* C11 (as claimed): at security level 2 or 3 the command handed to transmit
\* carries the encrypted command data followed by a C-MAC computed over the
\* command in its encrypted form; the MAC itself is not encrypted.
C11_EncryptThenMac ==
    (ret.op = "send_secure_apdu" /\ tx # <<>> /\ is_secure_channel_active
       /\ session.security_level >= 2)
        => LET encrypted == _encrypt_command_data(session, ret.command)
           IN tx[1] = IF session.protocol = "SCP02"
                      THEN _apply_scp02_mac(encrypted, session.session_keys)
                      ELSE _apply_scp03_mac(encrypted, session.session_keys,
                                            session.sequence_counter)

\* C12 (as claimed): in an open session of security level 3 a successful
\* response too short to carry an 8-byte R-MAC cannot verify, so
\* send_secure_apdu does not return it and the session is gone afterwards.
C12_RMacVerifiedBeforeReturn ==
    \A command \in Commands, outcome \in SecureOutcomes(session) :
        (/\ is_secure_channel_active
         /\ session.security_level = 3
         /\ CanTransmit
         /\ outcome.t = "response"
         /\ is_success(outcome)
         /\ ByteLen(outcome.data) < 8)
            => LET r == send_secure_apdu(command, outcome)
               IN r.result.t = "exception" /\ r.session = None

----------------------------------------------------------------------------
(* Properties of get_status *)

\* the entries of pages as get_status reports them, but for the type
ReportedEntries(objects) ==
    [i \in 1..Len(objects) |->
        StatusEntry(objects[i].aid, objects[i].life_cycle, objects[i].privileges)]

\* C13: the first GET STATUS has P2 = 00 and every later one P2 = 01 and
\* follows a response with SW 6310; when the card answers a page p with 6310
\* and then a page q with 9000, get_status returns the entries of p followed
\* by those of q, in order, after exactly two commands.
C13_PagingMergesInOrder ==
    ret.op = "get_status" =>
      /\ tx # <<>> => tx[1].p2 = 0
      /\ \A i \in 2..Len(tx) :
            tx[i].p2 = 1 /\ tx[i].ins = 242 /\ gs.responses[i - 1].sw = MoreData
      /\ \A p \in StatusPages, q \in StatusPages :
            (/\ gs.pc = "idle"
             /\ gs.responses = <<APDUResponse(EncodePage(p), MoreData),
                                 APDUResponse(EncodePage(q), 36864)>>)
                => /\ ret.result.t = "objects"
                   /\ ReportedEntries(ret.result.objects) = p \o q
                   /\ Len(tx) = 2

\* C13 witness: get_status has returned four entries read from a page of two
\* with SW 6310 and a page of two with SW 9000.
C13_Witness ==
    /\ ret.op = "get_status"
    /\ gs.pc = "idle"
    /\ Len(gs.responses) = 2
    /\ gs.responses[1].sw = MoreData
    /\ gs.responses[2].sw = 36864
    /\ ret.result.t = "objects"
    /\ Len(ret.result.objects) = 4
    /\ ret.result.objects[1].aid # ret.result.objects[3].aid

\* the type the classification rule gives an entry
EntryType(e) ==
    IF e.privileges \in {128, 160} /\ e.aid = card_manager_aid THEN "ISD"
    ELSE IF e.privileges = 160 THEN "DMSD"
    ELSE IF e.privileges = 128 THEN "SSD"
    ELSE "Application"

\* C14: every entry of a well-formed page is reported with its AID,
\* life-cycle and privileges unchanged and with the type its privileges and
\* AID give: ISD, DMSD, SSD or Application.
C14_EntriesClassified ==
    \A p \in StatusPages :
        (/\ ret.op = "get_status"
         /\ gs.pc = "idle"
         /\ gs.responses = <<APDUResponse(EncodePage(p), 36864)>>)
            => /\ ret.result.t = "objects"
               /\ ret.result.objects =
                    [i \in 1..Len(p) |->
                        [aid |-> p[i].aid, life_cycle |-> p[i].life_cycle,
                         privileges |-> p[i].privileges, type |-> EntryType(p[i])]]

\* C14 witness: get_status has returned a page with a security domain with
\* delegated management and an application whose privileges have bit 0x20.
C14_Witness ==
    /\ ret.op = "get_status"
    /\ gs.pc = "idle"
    /\ Len(gs.responses) = 1
    /\ ret.result.t = "objects"
    /\ Len(ret.result.objects) = 2
    /\ ret.result.objects[1].type = "DMSD"
    /\ ret.result.objects[2].type = "Application"
    /\ ret.result.objects[2].privileges = 32

----------------------------------------------------------------------------
(* Properties of the CLFDB life-cycle mapping *)

\* the life-cycle byte of each CLFDB operation
ClfdbLifeCycle(operation) ==
    CASE operation = "lock" -> 135
      [] operation = "unlock" -> 7
      [] operation = "terminate" -> 255

\* C15: perform_clfdb with lock, unlock or terminate hands to transmit one
\* SET STATUS (CLA 80, INS F0) whose data is len(AID) | AID | LC with LC 87
\* for lock, 07 for unlock and FF for terminate; with any other operation
\* name it fails and hands nothing to transmit.
C15_ClfdbMapping ==
    ret.op = "perform_clfdb" =>
        IF ret.args.operation \in {"lock", "unlock", "terminate"}
        THEN /\ CanTransmit => tx # <<>>
             /\ tx # <<>> =>
                  /\ Len(tx) = 1
                  /\ tx[1].cla = 128
                  /\ tx[1].ins = 240
                  /\ tx[1].data = <<B(ByteLen(ret.args.target_aid))>>
                                    \o ret.args.target_aid
                                    \o <<B(ClfdbLifeCycle(ret.args.operation))>>
        ELSE tx = <<>> /\ ~ret.ok

\* C15 witness: perform_clfdb has locked an AID on a card that answered 9000.
C15_Witness ==
    /\ ret.op = "perform_clfdb"
    /\ ret.args.operation = "lock"
    /\ ret.ok
    /\ tx # <<>>

\* the life-cycle byte of each OTA CLFDB operation
OtaLifeCycle(operation) ==
    CASE operation = "LOCK" -> 135
      [] operation = "UNLOCK" -> 7
      [] operation = "TERMINATE" -> 255
      [] operation = "MAKE_SELECTABLE" -> 7

\* C16 (as claimed): the command APDU the OTA builder makes for a CLFDB
\* message carries the life-cycle byte 87 for LOCK, 07 for UNLOCK, FF for
\* TERMINATE and 07 for MAKE_SELECTABLE; any other operation is rejected.
C16_OtaLifeCycleMapping ==
    ret.op = "clfdb_command_apdu" =>
        IF ret.args.operation \in {"LOCK", "UNLOCK", "TERMINATE", "MAKE_SELECTABLE"}
        THEN ret.result.t = "bytes"
                => ret.result.data[4] = B(OtaLifeCycle(ret.args.operation))
        ELSE ret.result.t = "exception"

----------------------------------------------------------------------------
(* Properties of the keyset store *)

\* whether an active keyset of the store has the pair (name, value_set)
ActivePair(st, name, value_set) ==
    \E i \in 1..Len(st.keysets) :
        /\ st.keysets[i].is_active
        /\ st.keysets[i].name = name
        /\ st.keysets[i].value_set = value_set

\* no two active keysets share (name, value_set)
NoTwoActiveShareAPair ==
    \A i \in 1..Len(store.keysets), j \in 1..Len(store.keysets) :
        (/\ i # j
         /\ store.keysets[i].is_active
         /\ store.keysets[j].is_active
         /\ store.keysets[i].name = store.keysets[j].name)
            => store.keysets[i].value_set # store.keysets[j].value_set

\* C17: add_keyset with the (name, value_set) of an active keyset raises the
\* duplicate error and leaves every row of the store as it was; in every
\* state no two active keysets share (name, value_set).
C17_DuplicateKeysetRejected ==
    [][/\ (/\ ret'.op = "add_keyset"
           /\ ActivePair(store, ret'.args.name, ret'.args.value_set))
              => (ret'.result = KeysetExists /\ store' = store)
       /\ NoTwoActiveShareAPair
       /\ NoTwoActiveShareAPair']_vars

\* C17 witness: add_keyset was refused for a record with valid columns whose
\* pair an active keyset with other keys has, and that keyset is still there.
C17_Witness ==
    /\ ret.op = "add_keyset"
    /\ ret.result = KeysetExists
    /\ ret.args.protocol = "SCP03"
    /\ ActivePair(store, ret.args.name, ret.args.value_set)
    /\ get_keyset_by_name(store, ret.args.name, ret.args.value_set).enc_key
          # ret.args.enc_key

\* whether a soft-deleted keyset of the store has the pair (name, value_set)
DeletedPair(st, name, value_set) ==
    \E i \in 1..Len(st.keysets) :
        /\ ~st.keysets[i].is_active
        /\ st.keysets[i].name = name
        /\ st.keysets[i].value_set = value_set

\* C18 (as claimed): add_keyset of a valid record with the (name, value_set)
\* of a soft-deleted keyset succeeds, and get_keyset_by_name returns the new
\* keyset.
C18_AddAfterSoftDelete ==
    (/\ ret.op = "add_keyset"
     /\ KeysetChecks(ret.args)
     /\ DeletedPair(store, ret.args.name, ret.args.value_set))
        => /\ ret.result.t = "id"
           /\ get_keyset_by_name(store, ret.args.name, ret.args.value_set) # None
           /\ get_keyset_by_name(store, ret.args.name, ret.args.value_set).id
                 = ret.result.id

\* C19: no store operation removes a keyset row; a successful delete_keyset
\* changes nothing but the row's active flag, now false, and its updated_at;
\* a soft-deleted keyset is returned neither by get_keysets nor by
\* get_keyset_by_name; get_value_sets lists, once each, exactly the value
\* sets that have an active keyset.
C19_DeleteIsSoft ==
    [][/\ Len(store'.keysets) >= Len(store.keysets)
       /\ \A i \in 1..Len(store.keysets) :
             /\ store'.keysets[i].id = store.keysets[i].id
             /\ store'.keysets[i].name = store.keysets[i].name
             /\ store'.keysets[i].value_set = store.keysets[i].value_set
       /\ (ret'.op = "delete_keyset" /\ ret'.ok)
             => /\ ~store'.keysets[ret'.args.keyset_id].is_active
                /\ store'.keysets =
                     [store.keysets EXCEPT
                        ![ret'.args.keyset_id].is_active = FALSE,
                        ![ret'.args.keyset_id].updated_at =
                            store'.keysets[ret'.args.keyset_id].updated_at]
       /\ \A i \in 1..Len(store'.keysets) :
             ~store'.keysets[i].is_active
                => /\ store'.keysets[i] \notin Range(get_keysets(store', "", ""))
                   /\ store'.keysets[i] \notin
                        Range(get_keysets(store', store'.keysets[i].value_set, ""))
                   /\ get_keyset_by_name(store', store'.keysets[i].name,
                                         store'.keysets[i].value_set) = None
       /\ Range(get_value_sets(store')) =
             {store'.keysets[i].value_set :
                 i \in {j \in 1..Len(store'.keysets) : store'.keysets[j].is_active}}
       /\ Len(get_value_sets(store')) = Cardinality(Range(get_value_sets(store')))
      ]_vars

\* C19 witness: delete_keyset has soft-deleted the only keyset of value set
\* "testing": the row is still there, inactive, and get_value_sets no longer
\* lists "testing".
C19_Witness ==
    /\ ret.op = "delete_keyset"
    /\ ret.ok
    /\ store.keysets[ret.args.keyset_id].name = "test_scp03"
    /\ ~store.keysets[ret.args.keyset_id].is_active
    /\ get_value_sets(store) = <<"production">>

\* C20: opening a store that exists changes none of its rows and adds none:
\* keysets, templates and messages are after the open what they were before.
C20_ReopenChangesNothing ==
    [][ret'.op = "open" => store' = store]_vars

\* C20 witness: the store has been reopened while one default keyset carries
\* updated keys and another is soft-deleted; the first keeps its keys, the
\* second stays inactive.
C20_Witness ==
    /\ ret.op = "open"
    /\ \E i \in 1..Len(store.keysets) :
          /\ store.keysets[i].name = "default_scp02"
          /\ store.keysets[i].enc_key = "K2"
    /\ \E i \in 1..Len(store.keysets) :
          /\ store.keysets[i].name = "default_scp03"
          /\ ~store.keysets[i].is_active

----------------------------------------------------------------------------
(* Properties of the OTA builder *)

BuilderOps == {"create_clfdb_sms_pp", "create_custom_ota_command"}

\* the last operation was a builder call that returned a message
Built == ret.op \in BuilderOps /\ ret.ok

\* the secured packet of a message (its user data)
Packet(message) == message.user_data.of

\* the CNTR field of a message's packet: the three bytes after SPI, KAD, TAR
MessageCntr(message) == Unpack3(Slice(Packet(message), 5, 8))

\* the command APDU the last builder call was to carry
BuiltCommand ==
    IF ret.op = "create_clfdb_sms_pp"
    THEN ClfdbCommandApdu(HexBytes(ret.args.target_aid), ret.args.operation).data
    ELSE HexBytes(ret.args.custom_apdu)

\* the template and the keyset the last builder call named
BuiltTemplate == store.ota_templates[ret.result.template_id]
BuiltKeyset == get_keyset_by_name(store, ret.args.keyset_name, ret.args.value_set)

\* C21 (as claimed): of two messages generated from one template the later
\* carries a larger CNTR, larger by exactly 1 when no message of the template
\* lies between them.
C21_CounterAdvances ==
    \A i, j \in 1..Len(store.ota_messages) :
        (/\ i < j
         /\ store.ota_messages[i].template_id = store.ota_messages[j].template_id)
            => /\ MessageCntr(store.ota_messages[j]) > MessageCntr(store.ota_messages[i])
               /\ (\A k \in (i + 1)..(j - 1) :
                      store.ota_messages[k].template_id
                          # store.ota_messages[i].template_id)
                     => MessageCntr(store.ota_messages[j])
                          = MessageCntr(store.ota_messages[i]) + 1

\* C22 (as claimed): a message a builder returns is in ota_messages with
\* status PENDING, and every stored message's status is one of PENDING, SENT,
\* DELIVERED, FAILED.
C22_MessagesPersistedPending ==
    /\ \A i \in 1..Len(store.ota_messages) :
          store.ota_messages[i].status \in {"PENDING", "SENT", "DELIVERED", "FAILED"}
    /\ Built => /\ ret.result.id \in 1..Len(store.ota_messages)
                /\ store.ota_messages[ret.result.id] = ret.result
                /\ ret.result.status = "PENDING"

\* C23 (as claimed): with SPI bit 0x02 the packet carries the command
\* encrypted under the keyset's enc_key, whatever bit 0x01 is; with bit 0x01
\* it ends in the 8-byte MAC, under the keyset's mac_key, of all that
\* precedes; with neither it is the header and the plaintext command.
C23_SpiBitsIndependent ==
    Built =>
        LET header == OtaHeaderBytes(HeaderOfTemplate(BuiltTemplate))
            spi == int16(BuiltTemplate.spi)
            payload == IF BitSet(spi, 2)
                       THEN _encrypt_command(BuiltCommand, BuiltKeyset)
                       ELSE BuiltCommand
            mac == IF BitSet(spi, 1)
                   THEN _calculate_ota_mac(header \o payload, BuiltKeyset)
                   ELSE <<>>
        IN Packet(ret.result) = header \o payload \o mac

\* C24 (as claimed): the packet's header is 11 bytes, with TAR at offset 4,
\* CNTR at offset 7 and PCNTR at offset 10, and the payload, where it is the
\* plaintext command, begins at offset 11.
C24_HeaderIsElevenBytes ==
    Built =>
        LET header == HeaderOfTemplate(BuiltTemplate)
            packet == Packet(ret.result)
        IN /\ Slice(packet, 4, 7) = header.tar
           /\ Slice(packet, 7, 10) = header.cntr
           /\ Slice(packet, 10, 11) = <<B(header.pcntr)>>
           /\ ~(BitSet(header.spi, 1) /\ BitSet(header.spi, 2))
                 => Slice(packet, 11, 11 + ByteLen(BuiltCommand)) = BuiltCommand

\* a string that is the hex of 5 to 16 bytes
ValidAid(aid) == HexOk(aid) /\ Len(HexBytes(aid)) \in 5..16

\* C25 (as claimed): validate_aid returns true exactly for the hex of 5 to 16
\* bytes, and a builder given any other target AID raises and persists
\* nothing.
C25_AidValidated ==
    /\ ret.op = "validate_aid" => (ret.result <=> ValidAid(ret.args.aid))
    /\ (ret.op \in BuilderOps /\ ~ValidAid(ret.args.target_aid))
          => /\ ~ret.ok
             /\ \A i \in 1..Len(store.ota_messages) :
                   ValidAid(store.ota_messages[i].target_aid)

----------------------------------------------------------------------------
(* Properties of APDU encoding, response parsing and padding *)

\* C26 (as claimed): to_bytes gives CLA INS P1 P2, then Lc and the data when
\* there is data, then the Le byte, also when Le is 00.
C26_LeAlwaysEmitted ==
    ret.op = "to_bytes" =>
        ret.result =
            <<B(ret.command.cla), B(ret.command.ins), B(ret.command.p1),
              B(ret.command.p2)>>
            \o (IF ret.command.data # <<>>
                THEN <<B(Len(ret.command.data))>> \o ret.command.data ELSE <<>>)
            \o <<B(ret.command.le)>>

\* C27: a reply of at least two bytes parses into the status word of its
\* last two bytes and the data before them; is_success holds exactly for
\* 9000 and is_warning exactly from 6200 to 63FF, never both; a shorter
\* reply is rejected with an exception.
C27_ResponseParsedAndClassified ==
    ret.op = "APDUResponse" =>
        LET n == Len(ret.args)
        IN IF n < 2 THEN ~ret.ok /\ ret.result.t = "exception"
           ELSE LET sw == ret.args[n - 1].v * 256 + ret.args[n].v
                IN /\ ret.ok
                   /\ ret.result.response.sw = sw
                   /\ ret.result.response.data \o <<ret.args[n - 1], ret.args[n]>>
                         = ret.args
                   /\ ret.result.is_success <=> sw = 36864
                   /\ ret.result.is_warning <=> sw \in 25088..25599
                   /\ ~(ret.result.is_success /\ ret.result.is_warning)

\* C27 witness: a reply of two data bytes and status 6310 was parsed: the
\* data is the two bytes, it is a warning and no success.
C27_Witness ==
    /\ ret.op = "APDUResponse"
    /\ ret.args = Bs(<<1, 2, 99, 16>>)
    /\ ret.result.response.data = Bs(<<1, 2>>)
    /\ ret.result.response.sw = 25360
    /\ ret.result.is_warning
    /\ ~ret.result.is_success

\* C28 (as claimed): what _decrypt_response_data gives for data padded and
\* encrypted as in _encrypt_command_data is the message that was padded.
C28_PaddingRoundTrips ==
    ret.op = "encrypt_then_decrypt" => ret.result = ret.args

----------------------------------------------------------------------------
(* Properties of the configuration manager *)

\* the entries of a keysets.yaml
FileEntries(file) == IF file.t = "yaml" THEN file.keysets ELSE <<>>

\* C29 (as claimed): after ConfigManager is constructed, a keyset that
\* keysets.yaml defines under name N is listed under N, and get_keyset(N)
\* returns it with the file's protocol and key version.
C29_YamlKeysetUnderItsName ==
    ret.op = "ConfigManager" =>
        \A i \in 1..Len(FileEntries(ret.args)) :
            LET entry == FileEntries(ret.args)[i]
            IN validate_keyset(entry.data)
                  => /\ <<entry.name>> \in list_keysets(keysets)
                     /\ get_keyset(keysets, <<entry.name>>) # None
                     /\ get_keyset(keysets, <<entry.name>>).protocol
                           = entry.data.protocol
                     /\ get_keyset(keysets, <<entry.name>>).key_version
                           = entry.data.key_version

\* C30: import_keysets_from_yaml returns (imported, skipped) with imported
\* the number of rows the call added to the store, each an active keyset of
\* the target value set, and skipped the number of entries it did not add;
\* the two sum to the number of entries of the file, and an entry counted as
\* imported is afterwards returned by the store for its name and the target
\* value set.
C30_ImportCountsAddedEntries ==
    [][ret'.op = "import_keysets_from_yaml" =>
          LET entries == FileEntries(ret'.args.file)
              target == ret'.args.target_value_set
              added == (Len(store.keysets) + 1)..Len(store'.keysets)
          IN /\ ret'.result.imported = Cardinality(added)
             /\ ret'.result.skipped = Len(entries) - Cardinality(added)
             /\ ret'.result.imported + ret'.result.skipped = Len(entries)
             /\ SubSeq(store'.keysets, 1, Len(store.keysets)) = store.keysets
             /\ \A id \in added : /\ store'.keysets[id].is_active
                                  /\ store'.keysets[id].value_set = target
             /\ \A i \in 1..Len(entries) :
                   ret'.result.counted[i]
                      => /\ get_keyset_by_name(store', entries[i].name, target) # None
                         /\ get_keyset_by_name(store', entries[i].name, target).id
                               \in added
      ]_vars

\* C30 witness: a file of two entries, one of a new name and one of the name
\* of a default keyset, was imported into value set production: the call
\* returned (0, 2), the store has no keyset of the new name.
C30_Witness ==
    /\ ret.op = "import_keysets_from_yaml"
    /\ ret.args.file = YamlFile(<<EntryNew, EntryDefault>>)
    /\ ret.args.target_value_set = "production"
    /\ ret.result.imported = 0
    /\ ret.result.skipped = 2
    /\ get_keyset_by_name(store, "k1", "production") = None

----------------------------------------------------------------------------
(* Properties of the card channel with two readers *)

\* the readers whose SmartcardReader object is in the connected state
ConnectedReaders == {r \in DOMAIN readers : readers[r].connected}

\* C31 (as claimed): after any sequence of connect_to_reader and
\* disconnect_all calls at most one reader is in the connected state.
C31_OneReaderConnected == Cardinality(ConnectedReaders) <= 1

----------------------------------------------------------------------------
(* Properties of a session shared by two threads *)

\* counter b is a few increments after counter a, modulo the 3-byte width
Ahead(a, b) == (b - a) % 16777216 \in 1..(MaxSends + 1)

\* C32 (as claimed): within one SCP03 session no two transmitted commands
\* carry the same sequence-counter value, and the commands reach the card
\* in increasing counter order, also when two threads call send_secure_apdu
\* at the same time.
C32_TransmittedInCounterOrder ==
    \A i, j \in DOMAIN callers.wire :
        (i < j /\ callers.wire[i].protocol = "SCP03")
            => Ahead(callers.wire[i].counter, callers.wire[j].counter)

----------------------------------------------------------------------------
(* Properties of a store shared by two sessions *)

\* the fields of a keyset row that update_keyset's keywords name
RowFields == {"protocol", "enc_key", "mac_key", "dek_key", "key_version",
              "security_level", "description", "is_active"}

\* C33 (as claimed): no update is lost.  Every field a successful
\* update_keyset set is present in the store afterwards, unless a later
\* successful update of the same keyset set that field itself; so two
\* sessions that update different fields of one keyset both find their change.
C33_NoLostUpdate ==
    \A i \in DOMAIN callers.wire :
        \A f \in DOMAIN callers.wire[i].kwargs \cap RowFields :
            (\A j \in DOMAIN callers.wire :
                (j > i /\ callers.wire[j].id = callers.wire[i].id)
                    => f \notin DOMAIN callers.wire[j].kwargs)
            => store.keysets[callers.wire[i].id][f] = callers.wire[i].kwargs[f]

----------------------------------------------------------------------------
(* Properties of the handshake's order *)

\* the card of handshake case c answered INITIALIZE UPDATE with 9000, a
\* response of full length and the cryptogram that belongs to the challenges
GenuineCard(c) ==
    IF c.keyset.protocol = "SCP03"
    THEN \E seq \in CardSeqValues :
            c.out1 = APDUResponse(
                Scp03InitUpdateData(c.keyset, c.host_challenge, seq, TRUE), 36864)
    ELSE /\ c.keyset.protocol = "SCP02"
         /\ c.out1 = APDUResponse(
                Scp02InitUpdateData(c.keyset, c.host_challenge, TRUE), 36864)

\* the card of handshake case c answered 9000 with a cryptogram that does
\* not verify
CryptogramMismatch(c) ==
    /\ c.out1 # TransportError
    /\ c.out1.sw = 36864
    /\ ByteLen(c.out1.data) >= 28
    /\ ~GenuineCard(c)

\* C34: the handshake's steps happen in a fixed order.  INITIALIZE UPDATE is
\* the first command sent; EXTERNAL AUTHENTICATE is sent, second, only
\* when INITIALIZE UPDATE returned 9000 with a full response whose cryptogram
\* verified; the handshake succeeds and assigns the session only when
\* EXTERNAL AUTHENTICATE returned 9000; on a cryptogram mismatch no
\* EXTERNAL AUTHENTICATE is sent.
C34_HandshakeInOrder ==
    [][ret'.op = "establish_secure_channel"
         => LET a == ret'.args
            IN /\ Len(tx') <= 2
               /\ Len(tx') >= 1 => (tx'[1].cla = 128 /\ tx'[1].ins = 80)
               /\ Len(tx') = 2 => /\ tx'[2].cla = 132 /\ tx'[2].ins = 130
                                  /\ GenuineCard(a.case)
               /\ ret'.ok => /\ Len(tx') = 2
                             /\ a.out2 # TransportError
                             /\ a.out2.sw = 36864
                             /\ session' # None
               /\ ~ret'.ok => session' = session
               /\ CryptogramMismatch(a.case) => Len(tx') <= 1]_vars

\* C34 witness: a handshake ran to its end, both commands were sent and the
\* session is open.
C34_Witness ==
    /\ ret.op = "establish_secure_channel"
    /\ ret.ok
    /\ Len(tx) = 2
    /\ GenuineCard(ret.args.case)
    /\ session # None

----------------------------------------------------------------------------
(* Properties of the CLFDB command the OTA builder synthesises *)

\* C35 (as claimed): in the command APDU built for a CLFDB operation the Lc
\* byte, the fifth, equals the number of data bytes that follow it, for
\* every AID of 5 to 16 bytes.
C35_LcIsDataLength ==
    (/\ ret.op = "clfdb_command_apdu"
     /\ ret.ok
     /\ ByteLen(ret.args.target_aid) \in 5..16)
        => ret.result.data[5].v = ByteLen(ret.result.data) - 5

----------------------------------------------------------------------------
(* Properties of the SCP03 INITIALIZE UPDATE response *)

\* the bytes of KDD[10], KVN[1], SCP_ID[1], seq[3], card_challenge[8] and
\* card_cryptogram[8] together: the parse reads up to response.data[23:31]
Scp03ResponseLength == 31

\* C36 (as claimed): an SCP03 INITIALIZE UPDATE response with 9000 that is
\* too short to hold every field at full width is rejected as malformed (by
\* the length check), before the cryptogram comparison and before EXTERNAL
\* AUTHENTICATE.
C36_ShortResponseIsMalformed ==
    (/\ ret.op = "establish_secure_channel"
     /\ ret.args.case.keyset.protocol = "SCP03"
     /\ Len(tx) >= 1
     /\ ret.args.case.out1 # TransportError
     /\ ret.args.case.out1.sw = 36864
     /\ ByteLen(ret.args.case.out1.data) < Scp03ResponseLength)
        => (ret.why = "length" /\ Len(tx) = 1)

----------------------------------------------------------------------------
(* Properties of a failing OTA builder call *)

\* the input errors the builders raise
BuilderInputErrors ==
    {Raised("ValueError: OTA template not found"),
     Raised("ValueError: Keyset not found in value set"),
     Raised("ValueError: Unsupported CLFDB operation"),
     Raised("ValueError: non-hexadecimal number found in fromhex() arg"),
     Raised("ValueError: AID too long (max 16 bytes)"),
     Raised("ValueError: Invalid APDU hex format")}

\* C37: an OTA builder call that fails raises an input error and leaves the
\* store as it was: no row is added to ota_messages and no template or
\* keyset row is modified.
C37_FailedBuildLeavesStore ==
    [][(ret'.op \in BuilderOps /\ ~ret'.ok)
         => (ret'.result \in BuilderInputErrors /\ store' = store)]_vars

\* C37 witness: a builder call failed because the keyset it names is
\* soft-deleted, in a store that already holds a message.
C37_Witness ==
    /\ ret.op \in BuilderOps
    /\ ~ret.ok
    /\ ret.result = Raised("ValueError: Keyset not found in value set")
    /\ DeletedPair(store, ret.args.keyset_name, ret.args.value_set)
    /\ Len(store.ota_messages) >= 1

----------------------------------------------------------------------------
(* Properties of the SCP03 counter when a send fails *)

\* C38 (as claimed): on an open SCP03 session that stays open, a
\* send_secure_apdu advances the host sequence counter by one when its
\* wrapped command was transmitted to the card, and leaves it unchanged when
\* the call failed before or during the transmit; so the counter is its
\* value at session creation plus the number of commands transmitted.
C38_CounterCountsTransmitted ==
    [][(/\ ret'.op = "send_secure_apdu"
        /\ session # None
        /\ session.protocol = "SCP03"
        /\ session' # None)
         => session'.sequence_counter =
               (session.sequence_counter
                  + (IF tx' # <<>> /\ ret'.result # Raised("APDU transmission failed")
                     THEN 1 ELSE 0)) % 16777216]_vars

----------------------------------------------------------------------------
(* Properties of get_status's termination *)

\* C39 (as claimed): get_status terminates for every card behaviour: a call
\* that has entered the continuation loop leaves it and returns.
C39_GetStatusReturns == (gs.pc = "loop") ~> (gs.pc = "idle")

----------------------------------------------------------------------------
(* Properties of the keyset cache after a delete *)

\* the key load_keysets_from_database caches a row under
CacheKey(row) == <<row.value_set, row.name>>

\* C40 (as claimed): once ConfigManager.delete_keyset(id) has succeeded,
\* list_keysets() no longer lists the deleted keyset and get_keyset no longer
\* returns it.
C40_DeletedKeysetLeavesCache ==
    (ret.op = "ConfigManager.delete_keyset" /\ ret.ok)
        => LET row == store.keysets[ret.args.keyset_id]
           IN /\ CacheKey(row) \notin list_keysets(keysets)
              /\ get_keyset(keysets, CacheKey(row)) = None

====
